---- MODULE Spec2Model ----
(***************************************************************************)
(* Model of the nexora HTTP router: the per-method radix tree (tree.Add,   *)
(* tree.Get) and the dispatcher built on it (Nexora.Handle,                *)
(* Nexora.ServeHTTP).                                                      *)
(*                                                                         *)
(* A Go string is a sequence of one-character strings, so that prefixes,   *)
(* slices and byte comparisons are computed as the code computes them.     *)
(* A handler chain ([]Handler) is a natural number naming the chain; the   *)
(* nil chain is NoHandlers.  A *node is the node value itself; where the   *)
(* code returns a pointer into the tree, the model returns the position of *)
(* that node (the child indexes leading to it).                            *)
(***************************************************************************)
EXTENDS Integers, Sequences, FiniteSets, TLC

(***************************************************************************)
(* Go strings                                                              *)
(***************************************************************************)
\* s[i:j] of Go, 0-based and half-open
Slice(s, i, j) == SubSeq(s, i + 1, j)

\* s[i:] of Go
From(s, i) == SubSeq(s, i + 1, Len(s))

\* s[i] of Go
At(s, i) == s[i + 1]

HasPrefix(s, p) == Len(s) >= Len(p) /\ SubSeq(s, 1, Len(p)) = p

HasSuffix(s, p) == Len(s) >= Len(p) /\ SubSeq(s, Len(s) - Len(p) + 1, Len(s)) = p

\* strings.IndexByte from position i on; -1 when absent
RECURSIVE IndexFrom(_, _, _)
IndexFrom(s, c, i) ==
    IF i >= Len(s) THEN -1
    ELSE IF At(s, i) = c THEN i
    ELSE IndexFrom(s, c, i + 1)

Min2(a, b) == IF a < b THEN a ELSE b

\* The paths of the model are ASCII, so the rune walk of the code is a byte walk.
RECURSIVE lcpFrom(_, _, _)
lcpFrom(a, b, i) ==
    IF i < Min2(Len(a), Len(b)) /\ At(a, i) = At(b, i)
    THEN lcpFrom(a, b, i + 1)
    ELSE i

longestCommonPrefix(a, b) == lcpFrom(a, b, 0)

\* index of the end of the first segment; with includeTSR a lone trailing
\* slash belongs to the segment
segmentEndIndex(path, includeTSR) ==
    LET slash == IndexFrom(path, "/", 0)
        end   == IF slash = -1 THEN Len(path) ELSE slash
    IN  IF includeTSR /\ From(path, end) = <<"/">> THEN end + 1 ELSE end

(***************************************************************************)
(* Nodes                                                                   *)
(***************************************************************************)
root == 0
static == 1
wildcard == 2
param == 3

NoHandlers == 0

\* a nil *nodeWildcard, a nil *regexp.Regexp, a nil *wildPath
NoWildcard == [path |-> <<>>, paramKey |-> <<>>, handlers |-> NoHandlers, set |-> FALSE]
NoRegex == <<>>
NoWildPath == [found |-> FALSE]

newNode(path) ==
    [nType |-> static, path |-> path, tsr |-> FALSE, handlers |-> NoHandlers,
     hasWildChild |-> FALSE, children |-> <<>>, wildcard |-> NoWildcard,
     paramKeys |-> <<>>, paramRegex |-> NoRegex]

\* clone copies every field but hasWildChild
clone(n) ==
    [nType |-> n.nType, path |-> n.path, tsr |-> n.tsr, handlers |-> n.handlers,
     hasWildChild |-> FALSE, children |-> n.children, wildcard |-> n.wildcard,
     paramKeys |-> n.paramKeys, paramRegex |-> n.paramRegex]

split(n, i) ==
    LET cloneChild == [clone(n) EXCEPT !.nType = static,
                                       !.path = From(n.path, i),
                                       !.paramKeys = <<>>,
                                       !.paramRegex = NoRegex]
    IN  [n EXCEPT !.path = Slice(n.path, 0, i),
                  !.handlers = NoHandlers,
                  !.tsr = FALSE,
                  !.wildcard = NoWildcard,
                  !.children = <<cloneChild>>]

(***************************************************************************)
(* Wild paths and segment regexes                                          *)
(***************************************************************************)
Digits == {"0", "1", "2", "3", "4", "5", "6", "7", "8", "9"}

\* the compiled form of the constraint [0-9]+ : "(" + pattern + ")"
DigitsRegex == <<"(", "[", "0", "-", "9", "]", "+", ")">>

\* the compiled form of the constraint \d+, which matches the same strings
DigitClassRegex == <<"(", "\\", "d", "+", ")">>

\* the compiled form of the constraint uint? : the bytes "uin", then an
\* optional "t"
OptionalTRegex == <<"(", "u", "i", "n", "t", "?", ")">>

\* the first index from i on at which "uin" stands, -1 when there is none
RECURSIVE FirstUin(_, _)
FirstUin(s, i) ==
    IF i + 3 > Len(s) THEN -1
    ELSE IF Slice(s, i, i + 3) = <<"u", "i", "n">> THEN i
    ELSE FirstUin(s, i + 1)

\* the end of the match of uint? that starts at b: the "t" is taken when it
\* is there
UinEnd(s, b) == IF b + 3 < Len(s) /\ At(s, b + 3) = "t" THEN b + 4 ELSE b + 3

RECURSIVE FirstDigit(_, _)
FirstDigit(s, i) ==
    IF i >= Len(s) THEN -1
    ELSE IF At(s, i) \in Digits THEN i
    ELSE FirstDigit(s, i + 1)

RECURSIVE DigitRunEnd(_, _)
DigitRunEnd(s, i) ==
    IF i < Len(s) /\ At(s, i) \in Digits THEN DigitRunEnd(s, i + 1) ELSE i

\* regexp.FindStringSubmatchIndex for the regexes of the model: the leftmost
\* match, longest at that position, followed by the bounds of its one group;
\* the empty sequence when nothing matches.
FindStringSubmatchIndex(re, s) ==
    IF re \in {DigitsRegex, DigitClassRegex}
    THEN LET b == FirstDigit(s, 0)
         IN  IF b = -1 THEN <<>>
             ELSE <<b, DigitRunEnd(s, b), b, DigitRunEnd(s, b)>>
    ELSE IF re = OptionalTRegex
    THEN LET b == FirstUin(s, 0)
         IN  IF b = -1 THEN <<>>
             ELSE <<b, UinEnd(s, b), b, UinEnd(s, b)>>
    ELSE <<>>

\* a variant of findEndIndexAndValues that accepts a match at any byte
findEndIndexAndValuesAnywhere(n, path) ==
    LET index == FindStringSubmatchIndex(n.paramRegex, path)
    IN  IF Len(index) = 0
        THEN [end |-> -1, values |-> <<>>]
        ELSE [end |-> index[2],
              values |-> [i \in 1..((Len(index) - 2) \div 2) |->
                             Slice(path, index[2 * i + 1], index[2 * i + 2])]]

\* returns <<end, values>>; end = -1 when the regex does not match at byte 0
findEndIndexAndValues(n, path) ==
    LET index == FindStringSubmatchIndex(n.paramRegex, path)
    IN  IF Len(index) = 0 \/ index[1] # 0
        THEN [end |-> -1, values |-> <<>>]
        ELSE [end |-> index[2],
              values |-> [i \in 1..((Len(index) - 2) \div 2) |->
                             Slice(path, index[2 * i + 1], index[2 * i + 2])]]

\* The first {...} token of path: its text, key, bounds, kind and regex.
\* Modelled for tokens that fill a whole segment ({name}, {name:regex},
\* {name:*}); a token followed by more bytes of the same segment is outside
\* the model.
findWildPath(path) ==
    LET start == IndexFrom(path, "{", 0)
        close == IF start = -1 THEN -1 ELSE IndexFrom(path, "}", start)
    IN  IF start = -1 \/ close = -1 THEN NoWildPath
        ELSE LET end   == close + 1
                 inner == Slice(path, start + 1, close)
                 colon == IndexFrom(inner, ":", 0)
                 key   == IF colon = -1 THEN inner ELSE Slice(inner, 0, colon)
                 pat   == IF colon = -1 THEN <<>> ELSE From(inner, colon + 1)
             IN  [found |-> TRUE,
                  path  |-> Slice(path, start, end),
                  keys  |-> <<key>>,
                  start |-> start,
                  end   |-> end,
                  pType |-> IF pat = <<"*">> THEN wildcard ELSE param,
                  regex |-> IF colon = -1 \/ pat = <<"*">> THEN NoRegex
                            ELSE <<"(">> \o pat \o <<")">>]

(***************************************************************************)
(* Insertion.  Every operation returns the node it was called on as the    *)
(* code leaves it (also when it fails), the error, and the returned *node  *)
(* as a position below it (isNil when the code returns nil).               *)
(***************************************************************************)
errNone == "nil"
errSetHandler == "errSetHandler"
errSetWildcardHandler == "errSetWildcardHandler"
errWildPathConflict == "errWildPathConflict"
errWildcardConflict == "errWildcardConflict"
errWildcardSlash == "errWildcardSlash"
errWildcardNotAtEnd == "errWildcardNotAtEnd"

Ret(n, err, at, isNil) == [n |-> n, err |-> err, at |-> at, isNil |-> isNil]

\* index of the first child whose path is "/", 0 when there is none
RECURSIVE FirstSlashChild(_, _)
FirstSlashChild(children, k) ==
    IF k > Len(children) THEN 0
    ELSE IF children[k].path = <<"/">> THEN k
    ELSE FirstSlashChild(children, k + 1)

setHandler(n, handlers) ==
    IF n.handlers # NoHandlers \/ n.tsr
    THEN Ret(n, errSetHandler, <<>>, FALSE)
    ELSE LET n1 == [n EXCEPT !.handlers = handlers]
             k  == FirstSlashChild(n.children, 1)
             n2 == IF k # 0 THEN [n1 EXCEPT !.children[k].tsr = TRUE] ELSE n1
             n3 == IF n2.path # <<"/">> /\ k = 0
                   THEN IF HasSuffix(n2.path, <<"/">>)
                        THEN [split(n2, Len(n2.path) - 1) EXCEPT !.tsr = TRUE]
                        ELSE [n2 EXCEPT !.children =
                                 Append(@, [newNode(<<"/">>) EXCEPT !.tsr = TRUE])]
                   ELSE n2
         IN  Ret(n3, errNone, <<>>, FALSE)

\* lines 280-295 of insert: the new child is the endpoint
insertEndpoint(n, child, handlers) ==
    LET c1 == [child EXCEPT !.handlers = handlers]
        k  == Len(n.children) + 1
    IN  IF c1.path = <<"/">>
        THEN Ret([n EXCEPT !.children = Append(@, c1), !.tsr = TRUE],
                 errNone, <<k>>, FALSE)
        ELSE IF HasSuffix(c1.path, <<"/">>)
        THEN Ret([n EXCEPT !.children =
                     Append(@, [split(c1, Len(c1.path) - 1) EXCEPT !.tsr = TRUE])],
                 errNone, <<k>>, FALSE)
        ELSE Ret([n EXCEPT !.children =
                     Append(@, [c1 EXCEPT !.children =
                                   Append(@, [newNode(<<"/">>) EXCEPT !.tsr = TRUE])])],
                 errNone, <<k>>, FALSE)

\* the wildcard case of insert (lines 240-268)
insertWildcard(n, path, end, wp, handlers) ==
    IF Len(path) = end /\ (Len(n.path) = 0 \/ At(n.path, Len(n.path) - 1) # "/")
    THEN Ret(n, errWildcardSlash, <<>>, TRUE)
    ELSE IF Len(path) # end
    THEN Ret(n, errWildcardNotAtEnd, <<>>, TRUE)
    ELSE LET peel == n.path # <<"/">> /\ At(n.path, Len(n.path) - 1) = "/"
             n1   == IF peel
                     THEN [split(n, Len(n.path) - 1) EXCEPT !.tsr = TRUE]
                     ELSE n
             at   == IF peel THEN <<1>> ELSE <<>>
             host == IF peel THEN n1.children[1] ELSE n1
             slot == [path |-> wp.path, paramKey |-> wp.keys[1],
                      handlers |-> handlers, set |-> TRUE]
         IN  IF host.wildcard.set
             THEN IF host.wildcard.path = path
                  THEN Ret(n1, errSetWildcardHandler, at, FALSE)
                  ELSE Ret(n1, errWildcardConflict, <<>>, TRUE)
             ELSE IF peel
                  THEN Ret([n1 EXCEPT !.children[1].wildcard = slot], errNone, at, FALSE)
                  ELSE Ret([n1 EXCEPT !.wildcard = slot], errNone, at, FALSE)

\* n.children = append(n.children, child), then the result of the call on child
Under(n, r) ==
    Ret([n EXCEPT !.children = Append(@, r.n)], r.err,
        <<Len(n.children) + 1>> \o r.at, r.isNil)

RECURSIVE insert(_, _, _)
insert(n, path, handlers) ==
    LET end   == segmentEndIndex(path, TRUE)
        child == newNode(path)
        wp    == findWildPath(path)
    IN  IF ~wp.found THEN insertEndpoint(n, child, handlers)
        ELSE LET j  == IF wp.start > 0 THEN wp.start ELSE end
                 c1 == [child EXCEPT !.path = Slice(path, 0, j)]
             IN  IF wp.start > 0
                 THEN Under(n, insert(c1, From(path, j), handlers))
                 ELSE IF wp.pType = wildcard
                 THEN insertWildcard(n, path, end, wp, handlers)
                 ELSE LET n1   == [n EXCEPT !.hasWildChild = TRUE]
                          c2   == [c1 EXCEPT !.nType = wp.pType,
                                             !.paramKeys = wp.keys,
                                             !.paramRegex = wp.regex]
                          rest == From(path, wp.end)
                      IN  IF Len(rest) > 0
                          THEN Under(n1, insert(c2, rest, handlers))
                          ELSE insertEndpoint(n1, c2, handlers)

\* index of the first child sharing a prefix with path, 0 when there is none
RECURSIVE FirstCommonChild(_, _, _)
FirstCommonChild(children, path, k) ==
    IF k > Len(children) THEN 0
    ELSE IF longestCommonPrefix(path, children[k].path) > 0 THEN k
    ELSE FirstCommonChild(children, path, k + 1)

\* the result of a call on child k, seen from its parent n
InChild(n, k, r) ==
    Ret([n EXCEPT !.children[k] = r.n], r.err, <<k>> \o r.at, r.isNil)

\* lines 343-347 of add: the child is the endpoint
addEndpoint(n, k, child, path, handlers) ==
    LET n1 == IF path = <<"/">> THEN [n EXCEPT !.tsr = TRUE] ELSE n
    IN  InChild(n1, k, setHandler(child, handlers))

RECURSIVE add(_, _, _)
add(n, path, handlers) ==
    IF Len(path) = 0 THEN setHandler(n, handlers)
    ELSE
    LET k == FirstCommonChild(n.children, path, 1)
    IN  IF k = 0 THEN insert(n, path, handlers)
        ELSE
        LET child == n.children[k]
            i     == longestCommonPrefix(path, child.path)
        IN  IF child.nType = static
            THEN LET c1 == IF Len(child.path) > i THEN split(child, i) ELSE child
                 IN  IF Len(path) > i
                     THEN InChild(n, k, add(c1, From(path, i), handlers))
                     ELSE addEndpoint(n, k, c1, path, handlers)
            ELSE IF child.nType = param
            THEN LET wp         == findWildPath(path)
                     isParam    == wp.start = 0 /\ wp.pType = param
                     hasHandler == child.handlers # NoHandlers \/ handlers = NoHandlers
                 IN  IF Len(path) = wp.end /\ isParam /\ hasHandler
                     THEN IF child.path = path
                          THEN Ret(n, errSetHandler, <<k>>, FALSE)
                          ELSE Ret(n, errWildPathConflict, <<>>, TRUE)
                     ELSE IF Len(path) > i
                     THEN IF child.path = wp.path
                          THEN InChild(n, k, add(child, From(path, i), handlers))
                          ELSE insert(n, path, handlers)
                     ELSE addEndpoint(n, k, child, path, handlers)
            ELSE addEndpoint(n, k, child, path, handlers)

(***************************************************************************)
(* Ordering of children                                                    *)
(***************************************************************************)
\* Less on two children
Less(a, b) ==
    IF a.nType < b.nType THEN TRUE
    ELSE IF a.nType > b.nType THEN FALSE
    ELSE Len(a.children) > Len(b.children)

\* sort.Sort on fewer than 12 elements is an insertion sort: element i sinks
\* while it is Less than its left neighbour
RECURSIVE Sink(_, _)
Sink(s, j) ==
    IF j > 1 /\ Less(s[j], s[j - 1])
    THEN Sink([s EXCEPT ![j] = s[j - 1], ![j - 1] = s[j]], j - 1)
    ELSE s

RECURSIVE InsertionSort(_, _)
InsertionSort(s, i) ==
    IF i > Len(s) THEN s ELSE InsertionSort(Sink(s, i), i + 1)

RECURSIVE sort(_)
sort(n) ==
    [n EXCEPT !.children =
        InsertionSort([k \in 1..Len(n.children) |-> sort(n.children[k])], 2)]

(***************************************************************************)
(* The tree                                                                *)
(***************************************************************************)
newTree == [root |-> [newNode(<<>>) EXCEPT !.nType = root], Mutable |-> FALSE]

RECURSIVE NodeAt(_, _)
NodeAt(n, at) == IF at = <<>> THEN n ELSE NodeAt(n.children[Head(at)], Tail(at))

RECURSIVE SetHandlersAt(_, _, _)
SetHandlersAt(n, at, handlers) ==
    IF at = <<>> THEN [n EXCEPT !.handlers = handlers]
    ELSE [n EXCEPT !.children[Head(at)] = SetHandlersAt(@, Tail(at), handlers)]

RECURSIVE SetWildcardHandlersAt(_, _, _)
SetWildcardHandlersAt(n, at, handlers) ==
    IF at = <<>> THEN [n EXCEPT !.wildcard.handlers = handlers]
    ELSE [n EXCEPT !.children[Head(at)] = SetWildcardHandlersAt(@, Tail(at), handlers)]

\* the root after the split of tree.Add
AddRoot(t, i) ==
    IF i > 0 /\ Len(t.root.path) > i THEN split(t.root, i) ELSE t.root

\* the path tree.Add passes to root.add
AddPath(path, i) == IF i > 0 THEN From(path, i) ELSE path

\* the first child takes the place of a root left with an empty path
Promote(n) ==
    IF Len(n.path) = 0 THEN [n.children[1] EXCEPT !.nType = root] ELSE n

\* tree.Add after root.add has returned r
AddFinish(t, handlers, r) ==
    IF r.err # errNone
    THEN IF t.Mutable /\ ~r.isNil /\ ~NodeAt(r.n, r.at).tsr
            /\ r.err \in {errSetHandler, errSetWildcardHandler}
         THEN [tree |-> [t EXCEPT !.root =
                            IF r.err = errSetHandler
                            THEN SetHandlersAt(r.n, r.at, handlers)
                            ELSE SetWildcardHandlersAt(r.n, r.at, handlers)],
               panicked |-> FALSE, err |-> r.err]
         ELSE [tree |-> [t EXCEPT !.root = r.n], panicked |-> TRUE, err |-> r.err]
    ELSE [tree |-> [t EXCEPT !.root = sort(Promote(r.n))],
          panicked |-> FALSE, err |-> errNone]

\* tree.Add once the common prefix i of the path and the root is known
AddFrom(t, path, handlers, i) ==
    AddFinish(t, handlers, add(AddRoot(t, i), AddPath(path, i), handlers))

\* tree.Add: the tree it leaves and whether it panicked
Add(t, path, handlers) ==
    IF ~HasPrefix(path, <<"/">>) \/ handlers = NoHandlers
    THEN [tree |-> t, panicked |-> TRUE, err |-> "illegal"]
    ELSE AddFrom(t, path, handlers, longestCommonPrefix(path, t.root.path))

(***************************************************************************)
(* Lookup                                                                  *)
(***************************************************************************)
NoParams == <<>>

Found(h, params, tsr) == [handlers |-> h, params |-> params, tsr |-> tsr]

Miss == Found(NoHandlers, NoParams, FALSE)

\* params[key] = values[i] for each key of the node
Bind(params, keys, values) ==
    LET new == {keys[i] : i \in 1..Len(keys)}
        last(key) == CHOOSE i \in 1..Len(keys) :
                        keys[i] = key /\ \A j \in 1..Len(keys) : keys[j] = key => j <= i
    IN  [key \in (DOMAIN params) \cup new |->
            IF key \in new THEN values[last(key)] ELSE params[key]]

RECURSIVE getFromChild(_, _)
RECURSIVE getFromChildren(_, _, _)
getFromChild(n, path) == getFromChildren(n, path, 1)

getFromChildren(n, path, k) ==
    IF k > Len(n.children)
    THEN IF n.wildcard.set
         THEN Found(n.wildcard.handlers,
                    Bind(NoParams, <<n.wildcard.paramKey>>, <<path>>), FALSE)
         ELSE Miss
    ELSE
    LET child == n.children[k]
        next  == getFromChildren(n, path, k + 1)
    IN  IF child.nType = static
        THEN IF At(path, 0) # At(child.path, 0) THEN next
             ELSE IF Len(path) > Len(child.path)
             THEN IF Slice(path, 0, Len(child.path)) # child.path THEN next
                  ELSE LET r == getFromChild(child, From(path, Len(child.path)))
                       IN  IF r.handlers # NoHandlers \/ r.tsr THEN r ELSE next
             ELSE IF path = child.path
             THEN IF child.tsr THEN Found(NoHandlers, NoParams, TRUE)
                  ELSE IF child.handlers # NoHandlers
                  THEN Found(child.handlers, NoParams, FALSE)
                  ELSE IF child.wildcard.set
                  THEN Found(child.wildcard.handlers,
                             Bind(NoParams, <<child.wildcard.paramKey>>, <<(<<>>)>>), FALSE)
                  ELSE Miss
             ELSE next
        ELSE
        LET segEnd   == segmentEndIndex(path, FALSE)
            paramVal == Slice(path, 0, segEnd)
            m        == IF child.paramRegex # NoRegex
                        THEN findEndIndexAndValues(child, paramVal)
                        ELSE [end |-> segEnd, values |-> <<paramVal>>]
            end      == m.end
        IN  IF end = -1 THEN next
            ELSE IF Len(path) > end
            THEN LET r == getFromChild(child, From(path, end))
                 IN  IF r.handlers # NoHandlers
                     THEN Found(r.handlers, Bind(r.params, child.paramKeys, m.values), FALSE)
                     ELSE IF r.tsr THEN Found(NoHandlers, NoParams, TRUE)
                     ELSE next
            ELSE IF child.handlers # NoHandlers
            THEN Found(child.handlers, Bind(NoParams, child.paramKeys, m.values), FALSE)
            ELSE IF child.tsr THEN Found(NoHandlers, NoParams, TRUE)
            ELSE next

\* tree.Get
Get(t, path) ==
    IF Len(path) > Len(t.root.path)
    THEN IF Slice(path, 0, Len(t.root.path)) # t.root.path THEN Miss
         ELSE getFromChild(t.root, From(path, Len(t.root.path)))
    ELSE IF path = t.root.path
    THEN IF t.root.tsr THEN Found(NoHandlers, NoParams, TRUE)
         ELSE IF t.root.handlers # NoHandlers
         THEN Found(t.root.handlers, NoParams, FALSE)
         ELSE IF t.root.wildcard.set
         THEN Found(t.root.wildcard.handlers,
                    Bind(NoParams, <<t.root.wildcard.paramKey>>, <<(<<>>)>>), FALSE)
         ELSE Miss
    ELSE Miss

(***************************************************************************)
(* Case-insensitive lookup.  The buffer is returned as the bytes a         *)
(* successful branch has written; a failed branch removes what it wrote.   *)
(***************************************************************************)
Upper == {"A", "B"}

\* the lower-case form of one byte
ToLower(c) == IF c = "A" THEN "a" ELSE IF c = "B" THEN "b" ELSE c

\* strings.EqualFold on the bytes of the model
EqualFold(a, b) ==
    /\ Len(a) = Len(b)
    /\ \A i \in 1..Len(a) : ToLower(a[i]) = ToLower(b[i])

NoPath == [found |-> FALSE, tsr |-> FALSE, buf |-> <<>>]

FoundPath(tsr, buf) == [found |-> TRUE, tsr |-> tsr, buf |-> buf]

\* buf.WriteString(s) before a call that returned r, removed again when the
\* call found nothing
Written(s, r) == IF r.found THEN FoundPath(r.tsr, s \o r.buf) ELSE NoPath

\* the result r of one branch, or that of the next one when it found nothing
OrElse(r, next) == IF r.found THEN r ELSE next

RECURSIVE find(_, _)
RECURSIVE findFromChildren(_, _, _)
findFromChild(n, path) == findFromChildren(n, path, 1)

find(n, path) ==
    IF Len(path) > Len(n.path)
    THEN IF ~EqualFold(Slice(path, 0, Len(n.path)), n.path) THEN NoPath
         ELSE Written(n.path, findFromChild(n, From(path, Len(n.path))))
    ELSE IF EqualFold(path, n.path)
    THEN IF n.tsr
         THEN IF n.path = <<"/">> THEN FoundPath(TRUE, <<>>)
              ELSE FoundPath(TRUE, n.path \o <<"/">>)
         ELSE IF n.handlers # NoHandlers THEN FoundPath(FALSE, n.path)
         ELSE NoPath
    ELSE NoPath

\* the param case of findFromChild once the end of the value is known
findParam(child, path, end, next) ==
    IF end = -1 THEN next
    ELSE IF Len(path) > end
    THEN OrElse(Written(Slice(path, 0, end), findFromChild(child, From(path, end))),
                next)
    ELSE IF child.tsr THEN FoundPath(TRUE, Slice(path, 0, end) \o <<"/">>)
    ELSE IF child.handlers # NoHandlers THEN FoundPath(FALSE, Slice(path, 0, end))
    ELSE next

findFromChildren(n, path, k) ==
    IF k > Len(n.children)
    THEN IF n.wildcard.set THEN FoundPath(FALSE, path) ELSE NoPath
    ELSE IF n.children[k].nType = static
    THEN OrElse(find(n.children[k], path), findFromChildren(n, path, k + 1))
    ELSE findParam(n.children[k], path,
                   IF n.children[k].paramRegex # NoRegex
                   THEN findEndIndexAndValues(
                            n.children[k],
                            Slice(path, 0, segmentEndIndex(path, FALSE))).end
                   ELSE segmentEndIndex(path, FALSE),
                   findFromChildren(n, path, k + 1))

\* tree.FindCaseInsensitivePath: whether a path was found and the buffer
FixedPath(r, fixTrailingSlash) ==
    IF ~r.found \/ (r.tsr /\ ~fixTrailingSlash) THEN NoPath ELSE r

FindCaseInsensitivePath(t, path, fixTrailingSlash) ==
    FixedPath(find(t.root, path), fixTrailingSlash)

\* cleanPath removes the '.' if it is the last character
cleanPath(path) ==
    IF HasSuffix(path, <<".">>) THEN Slice(path, 0, Len(path) - 1) ELSE path

(***************************************************************************)
(* Registration: methods, constraint rewriting, optional paths, Handle     *)
(***************************************************************************)
MethodGet == "GET"
MethodPost == "POST"
MethodConnect == "CONNECT"
MethodOptions == "OPTIONS"
MethodWild == "*"

\* the index of the tree of a method; customMethodsIndex is never written,
\* so every other method has none
methodIndexOf(method) ==
    CASE method = "GET" -> 0
      [] method = "HEAD" -> 1
      [] method = "POST" -> 2
      [] method = "PUT" -> 3
      [] method = "PATCH" -> 4
      [] method = "DELETE" -> 5
      [] method = "CONNECT" -> 6
      [] method = "OPTIONS" -> 7
      [] method = "TRACE" -> 8
      [] method = "*" -> 9
      [] OTHER -> -1

\* strings.Split(s, "/")
RECURSIVE SplitSlash(_)
SplitSlash(s) ==
    IF IndexFrom(s, "/", 0) = -1 THEN <<s>>
    ELSE <<Slice(s, 0, IndexFrom(s, "/", 0))>>
         \o SplitSlash(From(s, IndexFrom(s, "/", 0) + 1))

\* strings.Join(segs, "/")
RECURSIVE JoinSlash(_)
JoinSlash(segs) ==
    IF Len(segs) = 0 THEN <<>>
    ELSE IF Len(segs) = 1 THEN segs[1]
    ELSE segs[1] \o <<"/">> \o JoinSlash(Tail(segs))

\* the bytes \w and [a-zA-Z0-9_] of paramRegex, on the bytes of the model
WordBytes == {"a", "b", "c", "d", "i", "n", "t", "u", "x", "y", "z", "_"}
                 \cup Digits \cup Upper

IsWord(s) == Len(s) > 0 /\ \A i \in 1..Len(s) : s[i] \in WordBytes

\* the entry of constraintsType the model uses
constraintsType == (<<"u", "i", "n", "t">> :> <<"\\", "d", "+">>)

\* the replacement of one token "{" inner "}" matched by paramRegex
replaceToken(inner, colon) ==
    IF colon # -1 /\ IsWord(Slice(inner, 0, colon))
       /\ From(inner, colon + 1) \in DOMAIN constraintsType
    THEN <<"{">> \o Slice(inner, 0, colon) \o <<":">>
         \o constraintsType[From(inner, colon + 1)] \o <<"}">>
    ELSE <<"{">> \o inner \o <<"}">>

\* paramRegex.ReplaceAllStringFunc on one segment: a token whose type names
\* an entry of constraintsType is rewritten, every other byte is kept
RECURSIVE replaceTyped(_)
replaceTyped(seg) ==
    IF IndexFrom(seg, "{", 0) = -1 THEN seg
    ELSE IF IndexFrom(seg, "}", IndexFrom(seg, "{", 0)) = -1 THEN seg
    ELSE Slice(seg, 0, IndexFrom(seg, "{", 0))
         \o replaceToken(
                Slice(seg, IndexFrom(seg, "{", 0) + 1,
                      IndexFrom(seg, "}", IndexFrom(seg, "{", 0))),
                IndexFrom(Slice(seg, IndexFrom(seg, "{", 0) + 1,
                                IndexFrom(seg, "}", IndexFrom(seg, "{", 0))),
                          ":", 0))
         \o replaceTyped(From(seg, IndexFrom(seg, "}", IndexFrom(seg, "{", 0)) + 1))

\* the segments kept by parseConstraintsRoute, rewritten
RECURSIVE rewriteSegments(_)
rewriteSegments(segs) ==
    IF Len(segs) = 0 THEN <<>>
    ELSE IF Head(segs) = <<>> THEN rewriteSegments(Tail(segs))
    ELSE <<replaceTyped(Head(segs))>> \o rewriteSegments(Tail(segs))

\* parseConstraintsRoute: "/" + the non-empty segments joined by "/"
parseConstraintsRoute(route) ==
    <<"/">> \o JoinSlash(rewriteSegments(SplitSlash(route)))

\* gstrings.Include
Include(paths, p) == \E i \in 1..Len(paths) : paths[i] = p

\* a variant of withoutOptional that does not add the pattern without the
\* optional segment
withoutOptionalSkipped(path, paths, start) == paths

\* the paths after the '?' case: the pattern without the optional segment
withoutOptional(path, paths, start) ==
    IF Len(Slice(path, 0, start - 2)) = 0 THEN Append(paths, <<"/">>)
    ELSE IF ~Include(paths, Slice(path, 0, start - 2))
    THEN Append(paths, Slice(path, 0, start - 2))
    ELSE paths

\* getOptionalPaths: walk is the outer loop, scan the loop over the bytes
\* after a '{' (n of them, fixed when the loop starts)
RECURSIVE walk(_, _, _)
RECURSIVE scan(_, _, _, _, _, _, _, _, _)
walk(path, paths, start) ==
    IF start >= Len(path) THEN paths
    ELSE IF At(path, start) # "{" THEN walk(path, paths, start + 1)
    ELSE scan(path, paths, start + 1, 0, <<>>, FALSE, -1, 0, Len(path) - (start + 1))

scan(path, paths, start, end, newPath, hasRegex, questionMarkIndex, brackets, n) ==
    IF end >= n THEN walk(path, paths, start)
    ELSE IF At(path, start + end) = "{"
    THEN scan(path, paths, start, end + 1, newPath, hasRegex, questionMarkIndex,
              brackets + 1, n)
    ELSE IF At(path, start + end) = "}"
    THEN IF brackets > 0
         THEN scan(path, paths, start, end + 1, newPath, hasRegex,
                   questionMarkIndex, brackets - 1, n)
         ELSE IF questionMarkIndex = -1 THEN walk(path, paths, start)
         ELSE walk(Slice(path, 0, questionMarkIndex) \o From(path, questionMarkIndex + 1),
                   Append(paths, newPath \o Slice(path, questionMarkIndex + 1,
                                                  start + end + 1)),
                   start + end)
    ELSE IF At(path, start + end) = ":"
    THEN scan(path, paths, start, end + 1, newPath, TRUE, questionMarkIndex,
              brackets, n)
    ELSE IF At(path, start + end) = "?" /\ ~hasRegex
    THEN scan(path, withoutOptional(path, paths, start), start, end + 1,
              newPath \o Slice(path, 0, start + end), hasRegex, start + end,
              brackets, n)
    ELSE scan(path, paths, start, end + 1, newPath, hasRegex, questionMarkIndex,
              brackets, n)

getOptionalPaths(path) == walk(path, <<>>, 0)

\* a slot of n.trees that holds no tree
NilTree == [nil |-> TRUE]

\* a method that is none of the nine standard ones nor "*"
MethodCustom == "PURGE"

\* the methods whose routes the model registers
MethodNames == {"GET", "POST", "CONNECT", "OPTIONS", "*", MethodCustom}

\* Go's order on the method names: byte-wise, ascending
ByteOrder == <<"*", "CONNECT", "GET", "OPTIONS", "POST", MethodCustom>>

StringLess(a, b) ==
    (CHOOSE i \in 1..Len(ByteOrder) : ByteOrder[i] = a)
        < (CHOOSE i \in 1..Len(ByteOrder) : ByteOrder[i] = b)

\* the order in which the model ranges over the keys of registeredPaths;
\* Go's is unspecified and the list is sorted afterwards
RangeOrder == <<"POST", "OPTIONS", MethodCustom, "GET", "CONNECT", "*">>

\* New(): no tree, nothing registered, the four flags on, no hook set.  A
\* hook is whether it is set; PanicHandler and ErrorHandler are "unset" or
\* what the function set does: it returns nil ("nil"), an error ("error") or
\* ErrTeapot ("httpError")
New ==
    [trees |-> [i \in 1..10 |-> NilTree],
     treeMutable |-> FALSE,
     registeredPaths |-> [method \in MethodNames |-> <<>>],
     globalAllowed |-> <<>>,
     RedirectTrailingSlash |-> TRUE,
     RedirectFixedPath |-> TRUE,
     HandleMethodNotAllowed |-> TRUE,
     HandleOPTIONS |-> TRUE,
     GlobalOPTIONS |-> FALSE,
     NotFound |-> FALSE,
     MethodNotAllowed |-> FALSE,
     PanicHandler |-> "unset",
     ErrorHandler |-> "unset"]

\* the tree of a method, NilTree when there is none
TreeOf(nx, method) ==
    IF methodIndexOf(method) < 0 \/ methodIndexOf(method) >= Len(nx.trees)
    THEN NilTree
    ELSE nx.trees[methodIndexOf(method) + 1]

\* the inner loop of the insertion sort of allowed: allowed[j] moves down
RECURSIVE sinkMethod(_, _)
sinkMethod(a, j) ==
    IF j > 1 /\ StringLess(a[j], a[j - 1])
    THEN sinkMethod([a EXCEPT ![j] = a[j - 1], ![j - 1] = a[j]], j - 1)
    ELSE a

RECURSIVE sortMethods(_, _)
sortMethods(a, i) ==
    IF i > Len(a) THEN a ELSE sortMethods(sinkMethod(a, i), i + 1)

\* whether the loop of allowed appends the method for this path
allowsPath(nx, method, path, reqMethod) ==
    /\ nx.registeredPaths[method] # <<>>
    /\ method # reqMethod
    /\ method # MethodOptions
    /\ TreeOf(nx, method) # NilTree
    /\ Get(TreeOf(nx, method), path).handlers # NoHandlers

\* whether the loop of allowed appends the method for "*" or "/*"
allowsAny(nx, method) ==
    /\ nx.registeredPaths[method] # <<>>
    /\ method # MethodOptions

RECURSIVE allowedFrom(_, _, _, _)
allowedFrom(nx, path, reqMethod, k) ==
    IF k > Len(RangeOrder) THEN <<>>
    ELSE (IF (IF path \in {<<"*">>, <<"/", "*">>}
              THEN allowsAny(nx, RangeOrder[k])
              ELSE allowsPath(nx, RangeOrder[k], path, reqMethod))
          THEN <<RangeOrder[k]>> ELSE <<>>)
         \o allowedFrom(nx, path, reqMethod, k + 1)

\* a variant of allowedSorted that leaves the list in the order of the loop
allowedUnsorted(list) ==
    IF Len(list) > 0 THEN Append(list, MethodOptions) ELSE <<>>

\* OPTIONS appended to a non-empty list, which is then sorted
allowedSorted(list) ==
    IF Len(list) > 0 THEN sortMethods(Append(list, MethodOptions), 2) ELSE <<>>

\* allowed: the methods of the Allow value, to be joined by ", "
allowed(nx, path, reqMethod) ==
    IF path \in {<<"*">>, <<"/", "*">>} /\ reqMethod # ""
    THEN nx.globalAllowed
    ELSE allowedSorted(allowedFrom(nx, path, reqMethod, 1))

\* a new tree for a method: appended for a method without index, stored in
\* its slot otherwise; globalAllowed is computed again
withNewTree(nx, method) ==
    IF methodIndexOf(method) = -1
    THEN [nx EXCEPT !.trees = Append(@, [newTree EXCEPT !.Mutable = nx.treeMutable])]
    ELSE [nx EXCEPT !.trees[methodIndexOf(method) + 1] =
                        [newTree EXCEPT !.Mutable = nx.treeMutable]]

\* a variant of cacheAllowed that keeps the value cached before
cacheKept(nx) == nx

cacheAllowed(nx) == [nx EXCEPT !.globalAllowed = allowed(nx, <<"*">>, "")]

\* the 1-based place in n.trees of the tree Handle adds to
treeSlot(nx, method) ==
    IF methodIndexOf(method) = -1 THEN Len(nx.trees) + 1
    ELSE methodIndexOf(method) + 1

ensureTree(nx, method) ==
    IF methodIndexOf(method) = -1 \/ nx.trees[methodIndexOf(method) + 1] = NilTree
    THEN cacheAllowed(withNewTree(nx, method))
    ELSE nx

\* the result of Handle: the router it leaves and whether it panicked
Handled(nx, panicked) == [nx |-> nx, panicked |-> panicked]

\* tree.Add of each path in turn; a panic ends the call
RECURSIVE addPaths(_, _, _, _, _)
afterAdd(nx, slot, paths, handlers, k, r) ==
    IF r.panicked THEN Handled([nx EXCEPT !.trees[slot] = r.tree], TRUE)
    ELSE addPaths([nx EXCEPT !.trees[slot] = r.tree], slot, paths, handlers, k + 1)

addPaths(nx, slot, paths, handlers, k) ==
    IF k > Len(paths) THEN Handled(nx, FALSE)
    ELSE afterAdd(nx, slot, paths, handlers, k, Add(nx.trees[slot], paths[k], handlers))

\* the paths Handle adds: the optional paths, or the path as it is
pathsToAdd(path, optionalPaths) ==
    IF Len(optionalPaths) = 0 THEN <<path>> ELSE optionalPaths

\* Handle after parseConstraintsRoute
handleParsed(nx, method, path, handlers) ==
    addPaths(ensureTree([nx EXCEPT !.registeredPaths[method] = Append(@, path)], method),
             treeSlot(nx, method),
             pathsToAdd(path, getOptionalPaths(path)),
             handlers, 1)

\* Nexora.Handle
Handle(nx, method, path, handlers) ==
    IF method = "" \/ handlers = NoHandlers
       \/ Len(path) = 0 \/ ~HasPrefix(path, <<"/">>)
    THEN Handled(nx, TRUE)
    ELSE handleParsed(nx, method, parseConstraintsRoute(path), handlers)

(***************************************************************************)
(* Route groups.  A []Handler is a slice header (array, len, cap) over an  *)
(* array of the heap, so that two slices may share an array; a handler is  *)
(* a number from 1 on, 0 the zero value of an element.                     *)
(***************************************************************************)
MaxGroupCalls == 6

\* the handlers passed to Use, Group and the routes of a group: each call
\* passes a handler not passed before
GroupHandlers == 1..(MaxGroupCalls + 1)

\* make([]Handler, len, cap)
make(arrays, len, cap) ==
    [arrays |-> Append(arrays, [i \in 1..cap |-> 0]),
     s |-> [arr |-> Len(arrays) + 1, len |-> len, cap |-> cap]]

\* the elements of the slice
ElementsOf(arrays, s) == [i \in 1..s.len |-> arrays[s.arr][i]]

\* the capacity append grows a full slice to: the length needed when it is
\* more than twice the old capacity, else twice the old capacity
growCap(old, needed) == IF needed > 2 * old THEN needed ELSE 2 * old

\* array a with the elements hs written from index from + 1 on
written(a, from, hs) ==
    [i \in DOMAIN a |->
        IF i > from /\ i <= from + Len(hs) THEN hs[i - from] ELSE a[i]]

\* append(s, hs...): in place when the capacity suffices, else into a new
\* array
append(arrays, s, hs) ==
    IF s.len + Len(hs) <= s.cap
    THEN [arrays |-> [arrays EXCEPT ![s.arr] = written(@, s.len, hs)],
          s |-> [s EXCEPT !.len = @ + Len(hs)]]
    ELSE [arrays |->
              Append(arrays,
                     written([i \in 1..growCap(s.cap, s.len + Len(hs)) |-> 0],
                             0, ElementsOf(arrays, s) \o hs)),
          s |-> [arr |-> Len(arrays) + 1, len |-> s.len + Len(hs),
                 cap |-> growCap(s.cap, s.len + Len(hs))]]

\* copy(dst, src)
copy(arrays, dst, src) ==
    [arrays EXCEPT ![dst.arr] =
        written(@, 0, SubSeq(ElementsOf(arrays, src), 1, Min2(dst.len, src.len)))]

\* the slice of the arguments of a variadic call
variadic(arrays, hs) ==
    [arrays |-> Append(arrays, hs),
     s |-> [arr |-> Len(arrays) + 1, len |-> Len(hs), cap |-> Len(hs)]]

newRouteGroup(prefix, handlers) == [prefix |-> prefix, handlers |-> handlers]

\* the groups of a router: the heap and the list of the groups made, nexora's
\* own RouteGroup first, whose prefix is "" and handlers make([]Handler, 0).
\* Kept beside them, for each group: the handlers it was made with followed
\* by those of its own Use calls (want), the group it was made from (0 for
\* the first) and whether it was made without handlers; and the number of
\* Use and Group calls made.
newGroups ==
    [arrays |-> make(<<>>, 0, 0).arrays,
     list |-> <<newRouteGroup(<<>>, make(<<>>, 0, 0).s)>>,
     want |-> << <<>> >>, parent |-> <<0>>, inherited |-> <<FALSE>>,
     calls |-> 0]

\* the group made by Group once its handlers are in the heap
grouped(gs, g, prefix, made) ==
    [gs EXCEPT !.arrays = made.arrays,
               !.list = Append(@, newRouteGroup(gs.list[g].prefix \o prefix, made.s))]

\* make and copy of Group
copied(gs, g, made) ==
    [arrays |-> copy(made.arrays, made.s, gs.list[g].handlers), s |-> made.s]

\* a variant of Group whose new group shares the slice of the current one
GroupShared(gs, g, prefix, hs) ==
    IF Len(hs) = 0
    THEN grouped(gs, g, prefix, [arrays |-> gs.arrays, s |-> gs.list[g].handlers])
    ELSE grouped(gs, g, prefix, variadic(gs.arrays, hs))

\* RouteGroup.Group of group g
Group(gs, g, prefix, hs) ==
    IF Len(hs) = 0
    THEN grouped(gs, g, prefix,
                 copied(gs, g, make(gs.arrays, gs.list[g].handlers.len,
                                    gs.list[g].handlers.len)))
    ELSE grouped(gs, g, prefix, variadic(gs.arrays, hs))

\* g.handlers = the result of append
used(gs, g, r) == [gs EXCEPT !.arrays = r.arrays, !.list[g].handlers = r.s]

\* RouteGroup.Use of group g
Use(gs, g, hs) == used(gs, g, append(gs.arrays, gs.list[g].handlers, hs))

\* combineHandlers: a new slice of h1 followed by h2, as its elements
combineHandlers(h1, h2) == h1 \o h2

\* the chain of a list of handlers as the tree holds it: 0 for no handler,
\* and a number of its own for each list
RECURSIVE ChainId(_)
ChainId(hh) ==
    IF hh = <<>> THEN NoHandlers
    ELSE hh[1] + (Cardinality(GroupHandlers) + 1) * ChainId(Tail(hh))

\* RouteGroup.add of group g: the result of Handle
routeGroupAdd(gs, nx, g, method, path, hs) ==
    Handle(nx, method, gs.list[g].prefix \o path,
           ChainId(combineHandlers(ElementsOf(gs.arrays, gs.list[g].handlers), hs)))

(***************************************************************************)
(* Dispatch.  The response is the status sent (0 while none is, the first *)
(* WriteHeader wins), the Location and Allow headers, the chain run with   *)
(* its params, and the log of what was called, in order.                   *)
(***************************************************************************)
Unset == [set |-> FALSE, value |-> <<>>]

SetTo(value) == [set |-> TRUE, value |-> value]

Event(ev, name, code) == [ev |-> ev, name |-> name, code |-> code]

\* the request as ServeHTTP holds it: the response (status, headers), the
\* fields of the Context (handlers, params), the log of what was called and
\* what each called function found in the Context, whether a panic is under
\* way, whether it left ServeHTTP and whether the Context was put back
NewResponse ==
    [status |-> 0, Location |-> Unset, Allow |-> Unset,
     handlers |-> NoHandlers, params |-> NoParams, log |-> <<>>,
     seen |-> <<>>, panicking |-> FALSE, escaped |-> FALSE, put |-> FALSE]

\* newContext: no params, no handlers
newContext == [params |-> NoParams, handlers |-> NoHandlers]

\* Context.init: request, writer, index and queryValues are set; params and
\* handlers are left as they are
init(c) == [NewResponse EXCEPT !.handlers = c.handlers, !.params = c.params]

\* the Context as the request leaves it
ContextOf(w) == [params |-> w.params, handlers |-> w.handlers]

\* http.ResponseWriter.WriteHeader: only the first status is sent
WriteHeader(w, code, by) ==
    [w EXCEPT !.status = IF @ = 0 THEN code ELSE @,
              !.log = Append(@, Event("WriteHeader", by, code))]

\* the status the client receives: 200 when none was written
StatusOf(w) == IF w.status = 0 THEN 200 ELSE w.status

\* what a handler or a hook does when called: it returns nil without
\* writing, writes a body (hence status 200) and returns nil, or returns an
\* error without writing
Outcomes == {"nil", "writes", "error"}

\* the outcomes above, and: it returns ErrTeapot, it panics
AllOutcomes == Outcomes \cup {"httpError", "panic"}

\* the status code of the *HTTPError ErrTeapot
StatusTeapot == 418

\* a function of the user is called with the Context: the call and what the
\* Context holds are recorded
invoke(w, ev, name, code) ==
    [w EXCEPT !.log = Append(@, Event(ev, name, code)),
              !.seen = Append(@, [name |-> name, handlers |-> w.handlers,
                                  params |-> w.params])]

\* handleError once ErrorHandler has been called
errorHandled(nx, w) ==
    IF nx.ErrorHandler \in {"error", "httpError"}
    THEN WriteHeader(w, 500, "router")
    ELSE w

\* Nexora.handleError; err is "httpError" for an *HTTPError
handleError(nx, w, err) ==
    IF nx.ErrorHandler # "unset"
    THEN errorHandled(nx, invoke(w, "hook", "ErrorHandler", 0))
    ELSE IF err = "httpError" THEN WriteHeader(w, StatusTeapot, "router")
    ELSE WriteHeader(w, 500, "router")

\* the effect of a called handler on the request, and handleError after it
\* when it returned an error
called(nx, w, outcome) ==
    IF outcome = "writes" THEN WriteHeader(w, 200, "handler")
    ELSE IF outcome \in {"error", "httpError"} THEN handleError(nx, w, outcome)
    ELSE IF outcome = "panic" THEN [w EXCEPT !.panicking = TRUE]
    ELSE w

\* c.params, c.handlers = the result g of Get, then c.Next()
runChain(nx, w, g, outcome) ==
    called(nx,
           invoke([w EXCEPT !.handlers = g.handlers, !.params = g.params],
                  "chain", "", g.handlers),
           outcome)

\* a hook of the router (GlobalOPTIONS, NotFound, MethodNotAllowed) called
runHook(nx, w, name, outcome) ==
    called(nx, invoke(w, "hook", name, 0), outcome)

\* a variant of redirectCode that answers 301 whatever the method
redirectCodeMoved(method) == 301

\* 301 for GET, 308 for every other method
redirectCode(method) == IF method = MethodGet THEN 301 ELSE 308

\* the request path with its trailing slash removed, or with one appended
tsrURI(path) ==
    IF Len(path) > 1 /\ At(path, Len(path) - 1) = "/"
    THEN Slice(path, 0, Len(path) - 1)
    ELSE path \o <<"/">>

withQuery(uri, query) ==
    IF Len(query) > 0 THEN uri \o <<"?">> \o query ELSE uri

\* http.Redirect: the Location header, then the status
Redirect(w, url, code) ==
    WriteHeader([w EXCEPT !.Location = SetTo(url),
                          !.log = Append(@, Event("Header", "Location", 0))],
                code, "router")

Redirected(ok, w) == [ok |-> ok, w |-> w]

\* the fixed-path half of tryRedirect, f the result of the lookup
fixedRedirect(w, req, f) ==
    IF f.found
    THEN Redirected(TRUE, Redirect(w, withQuery(f.buf, req.query),
                                   redirectCode(req.method)))
    ELSE Redirected(FALSE, w)

\* Nexora.tryRedirect
tryRedirect(nx, w, req, tree, tsr) ==
    IF tsr /\ nx.RedirectTrailingSlash
    THEN Redirected(TRUE, Redirect(w, withQuery(tsrURI(req.path), req.query),
                                   redirectCode(req.method)))
    ELSE IF nx.RedirectFixedPath
    THEN fixedRedirect(w, req,
                       FindCaseInsensitivePath(tree, cleanPath(req.rawPath),
                                               nx.RedirectTrailingSlash))
    ELSE Redirected(FALSE, w)

\* the end of ServeHTTP: NotFound, or status 404
notFound(nx, w, outcome) ==
    IF nx.NotFound THEN runHook(nx, w, "NotFound", outcome)
    ELSE WriteHeader(w, 404, "router")

withAllow(w, allow) ==
    [w EXCEPT !.Allow = SetTo(allow),
              !.log = Append(@, Event("Header", "Allow", 0))]

\* the OPTIONS branch once allow is computed
optionsReply(nx, w, outcome, allow) ==
    IF allow # <<>>
    THEN IF nx.GlobalOPTIONS
         THEN runHook(nx, withAllow(w, allow), "GlobalOPTIONS", outcome)
         ELSE withAllow(w, allow)
    ELSE notFound(nx, w, outcome)

\* allow = allowed(path, OPTIONS), and allowed("*", OPTIONS) when it is empty
orGlobal(nx, allow) ==
    IF allow = <<>> THEN allowed(nx, <<"*">>, MethodOptions) ELSE allow

\* the method-not-allowed branch once allow is computed
notAllowedReply(nx, w, outcome, allow) ==
    IF allow # <<>>
    THEN IF nx.MethodNotAllowed
         THEN runHook(nx, withAllow(w, allow), "MethodNotAllowed", outcome)
         ELSE WriteHeader(withAllow(w, allow), 405, "router")
    ELSE notFound(nx, w, outcome)

\* ServeHTTP after both trees: OPTIONS, method not allowed, not found
serveFallback(nx, req, outcome, w) ==
    IF nx.HandleOPTIONS /\ req.method = MethodOptions
    THEN optionsReply(nx, w, outcome,
                      orGlobal(nx, allowed(nx, req.path, MethodOptions)))
    ELSE IF nx.HandleMethodNotAllowed
    THEN notAllowedReply(nx, w, outcome, allowed(nx, req.path, req.method))
    ELSE notFound(nx, w, outcome)

\* r is the result of tryRedirect: the request ends when it redirected
orFallback(nx, req, outcome, r) ==
    IF r.ok THEN r.w ELSE serveFallback(nx, req, outcome, r.w)

\* the wildcard-method tree returned g; the chain ends the request when it
\* returns an error or panics
serveWildGot(nx, req, outcome, w, g) ==
    IF g.handlers = NoHandlers THEN serveFallback(nx, req, outcome, w)
    ELSE IF outcome \in {"error", "httpError", "panic"}
    THEN runChain(nx, w, g, outcome)
    ELSE IF req.method # MethodConnect /\ req.path # <<"/">>
    THEN orFallback(nx, req, outcome,
                    tryRedirect(nx, runChain(nx, w, g, outcome), req,
                                TreeOf(nx, MethodWild), g.tsr))
    ELSE serveFallback(nx, req, outcome, runChain(nx, w, g, outcome))

\* ServeHTTP from the lookup in the wildcard-method tree on
serveWild(nx, req, outcome, w) ==
    IF TreeOf(nx, MethodWild) = NilTree THEN serveFallback(nx, req, outcome, w)
    ELSE serveWildGot(nx, req, outcome, w, Get(TreeOf(nx, MethodWild), req.path))

\* r is the result of tryRedirect on the tree of the method
orWild(nx, req, outcome, r) ==
    IF r.ok THEN r.w ELSE serveWild(nx, req, outcome, r.w)

\* the tree of the request's method returned g
serveOwnGot(nx, req, outcome, w, g) ==
    IF g.handlers # NoHandlers THEN runChain(nx, w, g, outcome)
    ELSE IF req.method # MethodConnect /\ req.path # <<"/">>
    THEN orWild(nx, req, outcome,
                tryRedirect(nx, w, req, TreeOf(nx, req.method), g.tsr))
    ELSE serveWild(nx, req, outcome, w)

\* the body of ServeHTTP after c.init, up to its return or its panic
serve(nx, req, outcome, w) ==
    IF methodIndexOf(req.method) > -1 /\ TreeOf(nx, req.method) # NilTree
    THEN serveOwnGot(nx, req, outcome, w, Get(TreeOf(nx, req.method), req.path))
    ELSE serveWild(nx, req, outcome, w)

\* a variant of recover that returns the panic value wherever it is called
recoverAnywhere(w, direct) == w.panicking

\* recover(): the value of the panic under way when the function that calls
\* it was itself deferred (direct), nil otherwise; modelled as whether the
\* value is not nil
recover(w, direct) == direct /\ w.panicking

\* recv after recover has returned a value: PanicHandler is called, and the
\* call of a nil PanicHandler is a new panic, raised in recv
recovered(nx, w) ==
    IF nx.PanicHandler = "unset"
    THEN [w EXCEPT !.panicking = TRUE,
                   !.log = Append(@, Event("panic", "recv", 0))]
    ELSE IF nx.PanicHandler = "error"
    THEN handleError(nx, invoke(w, "hook", "PanicHandler", 0), "error")
    ELSE invoke(w, "hook", "PanicHandler", 0)

\* Nexora.recv, called by a deferred function (direct = FALSE) or deferred
\* itself
recv(nx, w, direct) ==
    IF recover(w, direct) THEN recovered(nx, [w EXCEPT !.panicking = FALSE])
    ELSE w

\* whether recv has raised a panic of its own
recvPanicked(w) ==
    Len(w.log) > 0 /\ w.log[Len(w.log)] = Event("panic", "recv", 0)

\* the deferred function of ServeHTTP after n.recv(c): n.pool.Put(c) unless
\* recv panicked; a panic still under way leaves ServeHTTP
deferred(w) ==
    IF recvPanicked(w) THEN [w EXCEPT !.escaped = TRUE]
    ELSE [w EXCEPT !.put = TRUE, !.escaped = w.panicking]

\* Nexora.ServeHTTP with the Context c taken from the pool: the request when
\* ServeHTTP is left
ServeHTTP(nx, c, req, outcome) ==
    deferred(recv(nx, serve(nx, req, outcome, init(c)), FALSE))

(***************************************************************************)
(* Patterns and request paths of the model                                 *)
(***************************************************************************)
Patterns ==
    { <<"/">>,
      <<"/", "a">>,
      <<"/", "a", "/">>,
      <<"/", "a", "b">>,
      <<"/", "a", "/", "b">>,
      <<"/", "{", "x", "}">>,
      <<"/", "{", "x", "}", "/", "b">>,
      <<"/", "{", "x", "}", "/", "{", "y", "}">>,
      <<"/", "a", "/", "{", "y", "}">>,
      <<"/", "a", "/", "{", "n", ":", "[", "0", "-", "9", "]", "+", "}">>,
      <<"/", "a", "/", "{", "z", ":", "*", "}">>,
      <<"/", "{", "z", ":", "*", "}">> }

\* values a plain parameter is given: non-empty, no "/"
Values == { <<"a">>, <<"b">>, <<"7">> }

\* segments a regex parameter is tried on
RegexValues == { <<"7">>, <<"7", "8">>, <<"b">>, <<"7", "b">>, <<"b", "7">> }

\* remainders a catch-all is given
CatchValues == { <<>>, <<"b">>, <<"b", "/">>, <<"b", "/", "c">> }

\* the kind and key of each {...} token of a pattern, in order
RECURSIVE Tokens(_)
Tokens(pattern) ==
    LET wp == findWildPath(pattern)
    IN  IF ~wp.found THEN <<>>
        ELSE <<[key |-> wp.keys[1],
                kind |-> IF wp.pType = wildcard THEN "catchall"
                         ELSE IF wp.regex # NoRegex THEN "regex" ELSE "plain"]>>
             \o Tokens(From(pattern, wp.end))

Keys(pattern) == {Tokens(pattern)[i].key : i \in 1..Len(Tokens(pattern))}

KindOf(pattern, key) ==
    LET i == CHOOSE j \in 1..Len(Tokens(pattern)) : Tokens(pattern)[j].key = key
    IN  Tokens(pattern)[i].kind

IsStatic(pattern) == Tokens(pattern) = <<>>

HasKind(pattern, kind) ==
    \E i \in 1..Len(Tokens(pattern)) : Tokens(pattern)[i].kind = kind

\* the pattern with each {...} token replaced by the value given to its key
RECURSIVE Subst(_, _)
Subst(pattern, asg) ==
    LET wp == findWildPath(pattern)
    IN  IF ~wp.found THEN pattern
        ELSE Slice(pattern, 0, wp.start) \o asg[wp.keys[1]]
             \o Subst(From(pattern, wp.end), asg)

\* the regex of the model matches the whole segment
FullMatch(v) == Len(v) > 0 /\ \A i \in 1..Len(v) : v[i] \in Digits

\* the regex of the model matches at the first byte of the segment
MatchAtStart(v) == Len(v) > 0 /\ v[1] \in Digits

ValuesOf(kind) ==
    IF kind = "plain" THEN Values
    ELSE IF kind = "regex" THEN {v \in RegexValues : FullMatch(v)}
    ELSE CatchValues

\* every assignment of legal values to the keys of a pattern
Assignments(pattern) ==
    {asg \in [Keys(pattern) -> Values \cup RegexValues \cup CatchValues] :
        \A key \in Keys(pattern) : asg[key] \in ValuesOf(KindOf(pattern, key))}

\* the concrete paths a pattern matches
Concrete(pattern) == {Subst(pattern, asg) : asg \in Assignments(pattern)}

\* the path with its trailing slash removed if present, appended if absent
Toggle(path) ==
    IF HasSuffix(path, <<"/">>) THEN Slice(path, 0, Len(path) - 1)
    ELSE path \o <<"/">>

\* the patterns added to the trees searched without regard to case
CasePatterns ==
    { <<"/", "a">>,
      <<"/", "A">>,
      <<"/", "A", "/">>,
      <<"/", "a", "B">>,
      <<"/", "a", "/", "B">>,
      <<"/", "{", "x", "}">>,
      <<"/", "a", "/", "{", "z", ":", "*", "}">> }

\* patterns whose parameter segments differ in name or constraint at the
\* same position, ending there or going on
ParamPatterns ==
    { <<"/", "{", "x", "}">>,
      <<"/", "{", "y", "}">>,
      <<"/", "{", "x", "}", "/", "b">>,
      <<"/", "{", "y", "}", "/", "b">>,
      <<"/", "{", "x", ":", "[", "0", "-", "9", "]", "+", "}">>,
      <<"/", "{", "x", ":", "[", "0", "-", "9", "]", "+", "}", "/", "b">>,
      <<"/", "a", "/", "{", "x", "}">>,
      <<"/", "a", "/", "{", "y", "}", "/", "b">> }

\* Concrete on the patterns of the model, computed once
ConcreteOf ==
    [pattern \in Patterns \cup CasePatterns \cup ParamPatterns |-> Concrete(pattern)]

\* The reference meaning of a pattern: literal bytes match themselves, {name}
\* one non-empty segment, {name:[0-9]+} one segment of digits, {name:*} the
\* whole remainder.
RECURSIVE Matches(_, _)
Matches(pattern, path) ==
    LET wp == findWildPath(pattern)
    IN  IF ~wp.found THEN pattern = path
        ELSE /\ Len(path) >= wp.start
             /\ Slice(path, 0, wp.start) = Slice(pattern, 0, wp.start)
             /\ LET rest == From(path, wp.start)
                     seg  == Slice(rest, 0, segmentEndIndex(rest, FALSE))
                 IN  IF wp.pType = wildcard THEN TRUE
                     ELSE /\ Len(seg) > 0
                          /\ wp.regex # NoRegex => FullMatch(seg)
                          /\ Matches(From(pattern, wp.end), From(rest, Len(seg)))

\* every request path the model looks up
Paths == UNION {ConcreteOf[pattern] \cup {Toggle(q) : q \in ConcreteOf[pattern]} :
                  pattern \in Patterns}

(***************************************************************************)
(* The tree as a state machine                                             *)
(***************************************************************************)
MaxAdds == 3

MaxGets == 1

MaxHandles == 2

MaxRequests == 1

\* t is a tree used on its own and installed the chain last added for each
\* of its patterns; nx is a router, pool the Contexts in its pool and groups
\* its route groups; last is the last call and its result
VARIABLES t, installed, nx, pool, groups, last, nAdds, nPanics, nGets,
          nHandles, nRequests

vars ==
    <<t, installed, nx, pool, groups, last, nAdds, nPanics, nGets, nHandles,
      nRequests>>

NoOp == [op |-> "none"]

Init ==
    /\ t \in {[newTree EXCEPT !.Mutable = m] : m \in BOOLEAN}
    /\ installed = <<>>
    /\ nx = New
    /\ pool = {}
    /\ groups = newGroups
    /\ last = NoOp
    /\ nAdds = 0
    /\ nPanics = 0
    /\ nGets = 0
    /\ nHandles = 0
    /\ nRequests = 0

\* One call of tree.Add with a chain not passed before; a panic is recovered
\* by the caller, as the tests do.  Registration precedes lookup: the trees
\* are built first and then only read.
TreeAdd(path, handlers) ==
    /\ nAdds < MaxAdds
    /\ nGets = 0
    /\ LET r == Add(t, path, handlers)
       IN  /\ t' = r.tree
           /\ installed' = IF r.panicked THEN installed
                           ELSE [q \in (DOMAIN installed) \cup {path} |->
                                    IF q = path THEN handlers ELSE installed[q]]
           /\ last' = [op |-> "Add", path |-> path, handlers |-> handlers,
                       panicked |-> r.panicked, err |-> r.err,
                       registered |-> path \in DOMAIN installed,
                       old |-> IF path \in DOMAIN installed THEN installed[path]
                               ELSE NoHandlers,
                       pre |-> [q \in ConcreteOf[path] |-> Get(t, q)],
                       post |-> [q \in ConcreteOf[path] |-> Get(r.tree, q)]]
           /\ nPanics' = IF r.panicked THEN nPanics + 1 ELSE nPanics
    /\ nAdds' = nAdds + 1
    /\ UNCHANGED <<nx, pool, groups, nGets, nHandles, nRequests>>

\* One call of tree.Get; the tree is only read.
TreeGet(path) ==
    /\ nGets < MaxGets
    /\ last' = [op |-> "Get", path |-> path, result |-> Get(t, path)]
    /\ nGets' = nGets + 1
    /\ UNCHANGED <<t, installed, nx, pool, groups, nAdds, nPanics, nHandles,
                   nRequests>>

Next ==
    \/ \E path \in Patterns : TreeAdd(path, nAdds + 1)
    \/ \E path \in Paths : TreeGet(path)

Spec == Init /\ [][Next]_vars

(***************************************************************************)
(* Properties of the tree                                                  *)
(***************************************************************************)
\* the patterns registered by an Add that returned
Reg == DOMAIN installed

Statics == {P \in Reg : IsStatic(P)}

CatchAlls == {P \in Reg : HasKind(P, "catchall")}

Params == Reg \ (Statics \cup CatchAlls)

\* static, single-parameter or multi-parameter without constraint
PlainPattern(P) == ~HasKind(P, "regex") /\ ~HasKind(P, "catchall")

AssignmentsOf == [P \in Patterns |-> Assignments(P)]

\* P is the only registered pattern that matches the path
OnlyMatch(P, path) == \A Q \in Reg : Matches(Q, path) => Q = P

\* no registered pattern matches the path
NoneMatch(path) == \A Q \in Reg : ~Matches(Q, path)

\* the part of a catch-all pattern before its {key:*} token
CatchPrefix(C) == Slice(C, 0, findWildPath(C).start)

\* the first token of P stands where the catch-all token of C stands
SamePosition(P, C) ==
    /\ HasPrefix(P, CatchPrefix(C))
    /\ findWildPath(P).start = Len(CatchPrefix(C))

\* C1: after successful Adds only, Get of a registered static or plain
\* parameter pattern P with its parameters replaced by legal values returns
\* the chain installed for P, tsr = false and the parameters bound to the
\* substituted values.  Stated for the paths on which the claim cannot be
\* overridden by precedence or by a trailing-slash recommendation: P is the
\* only registered pattern matching the path and no registered pattern
\* matches the path with its trailing slash toggled.
C1_LookupReturnsInstalled ==
    (last.op = "Get" /\ nPanics = 0) =>
        \A P \in Reg : PlainPattern(P) =>
            \A asg \in AssignmentsOf[P] :
                ( /\ Subst(P, asg) = last.path
                  /\ OnlyMatch(P, last.path)
                  /\ NoneMatch(Toggle(last.path)) )
                => last.result = Found(installed[P], asg, FALSE)

\* C2: precedence is static > parameter > catch-all for every insertion
\* order.  When a registered static pattern and a registered parameter
\* pattern both match the path, Get returns the static pattern's chain with
\* no params; when a parameter pattern and a catch-all at the same position
\* both match (and no static pattern does), Get returns the chain of a
\* matching parameter pattern.
C2_Precedence ==
    (last.op = "Get" /\ nPanics = 0) =>
        /\ \A S \in Statics : \A P \in Params :
               (S = last.path /\ Matches(P, last.path))
               => last.result = Found(installed[S], NoParams, FALSE)
        /\ \A P \in Params : \A C \in CatchAlls :
               ( /\ Matches(P, last.path)
                 /\ Matches(C, last.path)
                 /\ SamePosition(P, C)
                 /\ last.path \notin Statics )
               => last.result.handlers \in
                      {installed[Q] : Q \in {R \in Params : Matches(R, last.path)}}

\* C3: after successful Adds only, for every registered endpoint E other
\* than "/" and every concrete path p of E, Get(p) returns E's chain with
\* tsr = false and Get of p with its trailing slash toggled returns no chain
\* with tsr = true.  Stated for endpoints without catch-all, where E is the
\* only registered pattern matching p and none matches the toggled path.
C3_TrailingSlashToggle ==
    (last.op = "Get" /\ nPanics = 0) =>
        \A E \in Reg \ {<<"/">>} : ~HasKind(E, "catchall") =>
            \A p \in ConcreteOf[E] :
                (OnlyMatch(E, p) /\ NoneMatch(Toggle(p))) =>
                    /\ last.path = p =>
                           /\ last.result.handlers = installed[E]
                           /\ ~last.result.tsr
                    /\ last.path = Toggle(p) =>
                           /\ last.result.handlers = NoHandlers
                           /\ last.result.tsr

\* C8: Add of a pattern that an earlier Add has registered panics when the
\* tree is not Mutable and leaves every lookup of the pattern as it was; when
\* the tree is Mutable it does not panic, and the lookups that returned the
\* old chain return the new one.
C8_DuplicateAdd ==
    (last.op = "Add" /\ last.registered) =>
        IF ~t.Mutable
        THEN /\ last.panicked
             /\ \A q \in ConcreteOf[last.path] : last.post[q] = last.pre[q]
        ELSE /\ ~last.panicked
             /\ \A q \in ConcreteOf[last.path] :
                    last.pre[q].handlers = last.old
                        => last.post[q].handlers = last.handlers

\* C9: after successful Adds only, Get of the prefix of a registered
\* catch-all pattern followed by a remainder, empty or not, that no other
\* registered pattern matches returns the chain of the catch-all, tsr = false
\* and its key bound to exactly the remainder.
C9_CatchAllRemainder ==
    (last.op = "Get" /\ nPanics = 0) =>
        \A C \in CatchAlls :
            (HasPrefix(last.path, CatchPrefix(C)) /\ OnlyMatch(C, last.path)) =>
                last.result = Found(installed[C],
                                    (Tokens(C)[1].key :> From(last.path, Len(CatchPrefix(C)))),
                                    FALSE)

(***************************************************************************)
(* The router as a state machine                                           *)
(***************************************************************************)
\* the routes registered: the method and the path passed to Handle; the
\* handler chain of a route is named by its place in this list
RouteList ==
    << <<"GET", <<"/", "a">>>>,
       <<"GET", <<"/", "a", "/">>>>,
       <<"GET", <<"/", "{", "x", "}">>>>,
       <<"GET", <<"/", "{", "x", "?", "}">>>>,
       <<"GET", <<"/", "a", "/", "{", "n", ":", "u", "i", "n", "t", "}">>>>,
       <<"GET", <<"/", "a", "/", "{", "z", ":", "*", "}">>>>,
       <<"POST", <<"/", "a">>>>,
       <<"POST", <<"/", "{", "x", "}">>>>,
       <<"*", <<"/", "a">>>>,
       <<"*", <<"/", "a", "/", "{", "z", ":", "*", "}">>>>,
       <<"OPTIONS", <<"/", "a">>>>,
       <<"CONNECT", <<"/", "a", "/", "{", "z", ":", "*", "}">>>>,
       <<"GET", <<"/", "{", "x", "?", "}", "/", "{", "y", "?", "}">>>>,
       <<"GET", <<"/", "a", "/", "{", "n", ":", "u", "i", "n", "t", "?", "}">>>>,
       <<"GET", <<"/", "A", "/">>>> >>

Routes == {RouteList[i] : i \in 1..Len(RouteList)}

ChainOf(route) == CHOOSE i \in 1..Len(RouteList) : RouteList[i] = route

\* the settings of the exported fields before the first registration: the
\* defaults of New, each flag switched off alone, and the three hooks set
Configs ==
    { New,
      [New EXCEPT !.RedirectTrailingSlash = FALSE],
      [New EXCEPT !.RedirectFixedPath = FALSE],
      [New EXCEPT !.HandleMethodNotAllowed = FALSE],
      [New EXCEPT !.HandleOPTIONS = FALSE],
      [New EXCEPT !.GlobalOPTIONS = TRUE, !.NotFound = TRUE,
                  !.MethodNotAllowed = TRUE] }

RequestMethods == {MethodGet, MethodPost, MethodOptions, MethodConnect}

\* r.URL.Path of the requests served; r.URL.RawPath is empty for them
RequestPaths ==
    { <<"/">>,
      <<"/", "a">>,
      <<"/", "a", "/">>,
      <<"/", "b">>,
      <<"/", "a", "/", "7">>,
      <<"/", "a", "/", "b">>,
      <<"/", "a", "/", "7", "b">>,
      <<"/", "a", "/", "b", "7">>,
      <<"/", "a", "/", "u", "i", "n", "t">> }

\* r.URL: Path with an empty RawPath, and one URL sent as /a%2fb, whose
\* decoded Path differs from what was sent, so that RawPath is kept
URLs ==
    { [path |-> p, rawPath |-> <<>>] : p \in RequestPaths }
        \cup { [path |-> <<"/", "a", "/", "b">>,
                rawPath |-> <<"/", "a", "%", "2", "f", "b">>] }

\* r.URL.RawQuery
Queries == { <<>>, <<"q">> }

Requests ==
    { [method |-> m, path |-> u.path, rawPath |-> u.rawPath, query |-> q] :
        m \in RequestMethods, u \in URLs, q \in Queries }

InitServe ==
    /\ t = newTree
    /\ installed = <<>>
    /\ nx \in Configs
    /\ pool = {}
    /\ groups = newGroups
    /\ last = NoOp
    /\ nAdds = 0
    /\ nPanics = 0
    /\ nGets = 0
    /\ nHandles = 0
    /\ nRequests = 0

\* One call of Handle with the chain of the route; a panic is recovered by
\* the caller.  Routes are registered before requests are served.
RouterHandle(method, path, handlers) ==
    /\ nHandles < MaxHandles
    /\ nRequests = 0
    /\ LET r == Handle(nx, method, path, handlers)
       IN  /\ nx' = r.nx
           /\ last' = [op |-> "Handle", method |-> method, path |-> path,
                       handlers |-> handlers, panicked |-> r.panicked]
           /\ nPanics' = IF r.panicked THEN nPanics + 1 ELSE nPanics
    /\ nHandles' = nHandles + 1
    /\ UNCHANGED <<t, installed, pool, groups, nAdds, nGets, nRequests>>

\* n.pool.Put(c) when the deferred function of ServeHTTP reached it
Put(p, w) == IF w.put THEN p \cup {ContextOf(w)} ELSE p

\* One request served with the Context c that n.pool.Get() returned, a
\* pooled one or a new one; the router is only read.
RouterServe(req, outcome, c) ==
    /\ nRequests < MaxRequests
    /\ last' = [op |-> "ServeHTTP", req |-> req, outcome |-> outcome, c |-> c,
                w |-> ServeHTTP(nx, c, req, outcome)]
    /\ pool' = Put(pool \ {c}, last'.w)
    /\ nRequests' = nRequests + 1
    /\ UNCHANGED <<t, installed, nx, groups, nAdds, nPanics, nGets, nHandles>>

NextServe ==
    \/ \E route \in Routes : RouterHandle(route[1], route[2], ChainOf(route))
    \/ \E req \in Requests, outcome \in Outcomes, c \in pool \cup {newContext} :
          RouterServe(req, outcome, c)

SpecServe == InitServe /\ [][NextServe]_vars

(***************************************************************************)
(* Properties of the router                                                *)
(***************************************************************************)
\* the tree of the method has a handler chain for the path
HasHandler(method, path) ==
    /\ TreeOf(nx, method) # NilTree
    /\ Get(TreeOf(nx, method), path).handlers # NoHandlers

\* the tree of the method reports tsr for the path
HasTsr(method, path) ==
    /\ TreeOf(nx, method) # NilTree
    /\ Get(TreeOf(nx, method), path).tsr

\* the places of the log of a response where a chain or a hook was called
Invoked(w) == {i \in DOMAIN w.log : w.log[i].ev \in {"chain", "hook"}}

\* the places of the log where the router wrote one of the statuses
RouterWrote(w, codes) ==
    {i \in DOMAIN w.log : w.log[i].ev = "WriteHeader"
                            /\ w.log[i].name = "router" /\ w.log[i].code \in codes}

\* the Location of a redirect: the path, and "?" and the query when there is one
Target(path, query) == IF query = <<>> THEN path ELSE path \o <<"?">> \o query

\* C4: when the tree of the request's method reports tsr for the path,
\* RedirectTrailingSlash is on, the method is not CONNECT and the path is not
\* "/", the response is a redirect with status 301 for GET and 308 for every
\* other method, its Location is the path with the trailing slash toggled,
\* followed by "?" and the raw query when there is one, and no handler is
\* called; a CONNECT request and a request for "/" are never redirected.
C4_TrailingSlashRedirect ==
    last.op = "ServeHTTP" =>
        /\ (/\ HasTsr(last.req.method, last.req.path)
            /\ nx.RedirectTrailingSlash
            /\ last.req.method # MethodConnect
            /\ last.req.path # <<"/">>)
           => /\ StatusOf(last.w) = IF last.req.method = MethodGet THEN 301 ELSE 308
              /\ last.w.Location = SetTo(Target(Toggle(last.req.path), last.req.query))
              /\ Invoked(last.w) = {}
        /\ (last.req.method = MethodConnect \/ last.req.path = <<"/">>)
           => /\ ~last.w.Location.set
              /\ StatusOf(last.w) \notin {301, 308}

\* a POST request with a query is redirected with 308
C4_Witness ==
    /\ last.op = "ServeHTTP"
    /\ HasTsr(last.req.method, last.req.path)
    /\ nx.RedirectTrailingSlash
    /\ last.req.method = MethodPost
    /\ last.req.query # <<>>
    /\ last.w.status = 308
    /\ last.w.Location.set

\* the Allow value of a set of methods: ascending, to be joined by ", "
AllowOf(methods) == SelectSeq(ByteOrder, LAMBDA m : m \in methods)

\* the methods other than the request's whose tree has a handler for the path
OtherMethods(method, path) ==
    {m \in MethodNames \ {method} : HasHandler(m, path)}

\* the hook was called
Hooked(w, name) == \E i \in DOMAIN w.log : w.log[i] = Event("hook", name, 0)

\* a request that neither its own tree nor the wildcard-method tree has a
\* handler for, and that was not redirected
Unrouted ==
    /\ last.op = "ServeHTTP"
    /\ ~HasHandler(last.req.method, last.req.path)
    /\ ~HasHandler(MethodWild, last.req.path)
    /\ ~last.w.Location.set

C6_OptionsSynthesis ==
    (/\ last.op = "ServeHTTP"
     /\ nx.HandleOPTIONS
     /\ last.req.method = MethodOptions
     /\ ~HasHandler(MethodOptions, last.req.path)
     /\ ~last.w.Location.set) =>
        /\ last.w.Allow.set =>
               \A i \in DOMAIN last.w.Allow.value :
                   \/ last.w.Allow.value[i] = MethodOptions
                   \/ HasHandler(last.w.Allow.value[i], last.req.path)
        /\ OtherMethods(MethodOptions, last.req.path) # {} =>
               /\ last.outcome # "error" => StatusOf(last.w) = 200
               /\ last.w.Allow =
                      SetTo(AllowOf(OtherMethods(MethodOptions, last.req.path)
                                        \cup {MethodOptions}))
               /\ nx.GlobalOPTIONS =>
                      \E i \in DOMAIN last.w.log :
                          /\ last.w.log[i] = Event("hook", "GlobalOPTIONS", 0)
                          /\ \E j \in 1..(i - 1) :
                                 last.w.log[j] = Event("Header", "Allow", 0)
               /\ \A i \in DOMAIN last.w.log : last.w.log[i].ev # "chain"

\* the response is a redirect decided on the tree of the request's method,
\* before the wildcard-method tree is looked at
OwnRedirect(w) ==
    Len(w.log) > 0 /\ w.log[1] = Event("Header", "Location", 0)

\* C7: when the tree of the request's method has no handler for the path and
\* the wildcard-method tree has one, the chain of the wildcard-method tree is
\* run with its params and, once it has returned nil, nothing else happens:
\* no redirect, no Allow header, no status 405 or 404, no hook.
C7_WildcardHitTerminal ==
    (/\ last.op = "ServeHTTP"
     /\ ~HasHandler(last.req.method, last.req.path)
     /\ HasHandler(MethodWild, last.req.path)
     /\ ~OwnRedirect(last.w)
     /\ last.outcome # "error") =>
        /\ last.w.handlers = Get(TreeOf(nx, MethodWild), last.req.path).handlers
        /\ last.w.params = Get(TreeOf(nx, MethodWild), last.req.path).params
        /\ ~last.w.Location.set
        /\ ~last.w.Allow.set
        /\ RouterWrote(last.w, {301, 308, 404, 405}) = {}
        /\ \A i \in DOMAIN last.w.log : last.w.log[i].ev # "hook"

\* the route with a constrained parameter and the catch-all route in the
\* same place
RegexRoute == RouteList[5]

CatchRoute == RouteList[6]

\* Handle was called for the route
Registered(route) ==
    \E i \in DOMAIN nx.registeredPaths[route[1]] :
        nx.registeredPaths[route[1]][i] = parseConstraintsRoute(route[2])

\* the request path is /a/ followed by one segment, which Seg returns
UnderA(path) ==
    /\ Len(path) > 3
    /\ Slice(path, 0, 3) = <<"/", "a", "/">>
    /\ IndexFrom(path, "/", 3) = -1

Seg(path) == From(path, 3)

\* a pattern added for a GET route other than the constrained one matches the
\* path
OtherMatches(path) ==
    \E i \in DOMAIN nx.registeredPaths[MethodGet] :
        /\ nx.registeredPaths[MethodGet][i] # parseConstraintsRoute(RegexRoute[2])
        /\ \E k \in DOMAIN pathsToAdd(nx.registeredPaths[MethodGet][i],
                                     getOptionalPaths(nx.registeredPaths[MethodGet][i])) :
               Matches(pathsToAdd(nx.registeredPaths[MethodGet][i],
                                  getOptionalPaths(nx.registeredPaths[MethodGet][i]))[k],
                       path)

\* C10: with the route /a/{n:uint} registered (constraint \d+) and only
\* successful registrations, for a GET request of /a/ and one segment: Get
\* binds n or returns the chain of the route only when the segment matches
\* the constraint at its first byte; a segment of digits is bound to n and the
\* chain of the route is run with it; for a segment that does not match at
\* its first byte the lookup goes on to the catch-all in the same place and
\* returns nil when no other pattern matches, and then ServeHTTP answers 404 when no
\* tree has a handler for the path.
C10_RegexParam ==
    (/\ last.op = "ServeHTTP"
     /\ nPanics = 0
     /\ last.req.method = MethodGet
     /\ Registered(RegexRoute)
     /\ UnderA(last.req.path)) =>
        /\ (\/ <<"n">> \in DOMAIN Get(TreeOf(nx, MethodGet), last.req.path).params
            \/ Get(TreeOf(nx, MethodGet), last.req.path).handlers = ChainOf(RegexRoute))
           => MatchAtStart(Seg(last.req.path))
        /\ FullMatch(Seg(last.req.path)) =>
              /\ Get(TreeOf(nx, MethodGet), last.req.path)
                     = Found(ChainOf(RegexRoute), (<<"n">> :> Seg(last.req.path)), FALSE)
              /\ last.w.log[1] = Event("chain", "", ChainOf(RegexRoute))
              /\ last.w.params = (<<"n">> :> Seg(last.req.path))
        /\ ~MatchAtStart(Seg(last.req.path)) =>
              IF Registered(CatchRoute)
              THEN Get(TreeOf(nx, MethodGet), last.req.path)
                       = Found(ChainOf(CatchRoute), (<<"z">> :> Seg(last.req.path)), FALSE)
              ELSE /\ ~OtherMatches(last.req.path)
                          => Get(TreeOf(nx, MethodGet), last.req.path) = Miss
                   /\ (/\ \A m \in MethodNames : ~HasHandler(m, last.req.path)
                       /\ ~nx.NotFound
                       /\ last.req.rawPath = <<>>)
                      => last.w.status = 404 /\ Invoked(last.w) = {}

\* GET /a/b with only the constrained route registered is answered 404
C10_Witness ==
    /\ last.op = "ServeHTTP"
    /\ nPanics = 0
    /\ last.req.method = MethodGet
    /\ Registered(RegexRoute)
    /\ ~Registered(CatchRoute)
    /\ last.req.path = <<"/", "a", "/", "b">>
    /\ Get(TreeOf(nx, MethodGet), last.req.path) = Miss
    /\ last.w.status = 404

\* the routes with one and with two optional segments
OptionalRoute == RouteList[4]

TwoOptionalRoute == RouteList[13]

\* the places of the "?" bytes of a pattern, ascending
QuestionMarks(pattern) ==
    SelectSeq([i \in 1..Len(pattern) |-> i], LAMBDA i : pattern[i] = "?")

\* the place of the "{" that opens the token the byte at place i is in
OpenBefore(pattern, i) ==
    CHOOSE j \in 1..i : pattern[j] = "{" /\ \A k \in (j + 1)..i : pattern[k] # "{"

\* the bytes of s without the "?" bytes
Unmarked(s) == SelectSeq(s, LAMBDA c : c # "?")

\* the pattern cut before the leading "/" of the optional segment whose "?"
\* stands at place i; "/" when that segment is the first one
CutBefore(pattern, i) ==
    IF OpenBefore(pattern, i) <= 2 THEN <<"/">>
    ELSE Unmarked(SubSeq(pattern, 1, OpenBefore(pattern, i) - 2))

\* the k+1 prefix patterns of a pattern with k optional segments
PrefixPatterns(pattern) ==
    [k \in 1..Len(QuestionMarks(pattern)) |->
        CutBefore(pattern, QuestionMarks(pattern)[k])]
        \o <<Unmarked(pattern)>>

\* the route is the only one registered for its method, without panic
OnlyRoute(route) ==
    /\ nPanics = 0
    /\ nx.registeredPaths[route[1]] = <<parseConstraintsRoute(route[2])>>

\* the values a parameter takes in the request paths served
SegValues == Values \cup RegexValues

TypedOptionalRoute == RouteList[14]

\* the chain of the route was run first, with these params
RanFirst(w, route, params) ==
    /\ Len(w.log) > 0
    /\ w.log[1] = Event("chain", "", ChainOf(route))
    /\ w.params = params

\* C12: with GET /a/{n:uint?} the only route of its method, a GET request for
\* /a runs the chain of the route without parameter, a request for /a/7 runs
\* it with n = "7", and a request for /a/b does not run it.
C12_TypedOptional ==
    (/\ last.op = "ServeHTTP"
     /\ last.req.method = MethodGet
     /\ OnlyRoute(TypedOptionalRoute)) =>
        /\ last.req.path = <<"/", "a">> =>
               RanFirst(last.w, TypedOptionalRoute, NoParams)
        /\ last.req.path = <<"/", "a", "/", "7">> =>
               RanFirst(last.w, TypedOptionalRoute, (<<"n">> :> <<"7">>))
        /\ last.req.path = <<"/", "a", "/", "b">> =>
               \A i \in DOMAIN last.w.log :
                   last.w.log[i] # Event("chain", "", ChainOf(TypedOptionalRoute))

\* the route registered with upper-case bytes and a trailing slash
CaseRoute == RouteList[15]

\* the path is not p and equals it under ASCII case folding, as it is or with
\* its trailing slash toggled
FoldsTo(path, p) ==
    /\ path # p
    /\ EqualFold(path, p) \/ EqualFold(Toggle(path), p)

\* C13: with RedirectTrailingSlash and RedirectFixedPath on and GET /A/ the
\* only route of its method, a GET request whose path differs from /A/ only
\* by ASCII case or by the trailing slash (/a, /a/) is answered 301 with
\* Location /A/, followed by "?" and the query when there is one, and no
\* handler is called.
C13_CaseRecovery ==
    (/\ last.op = "ServeHTTP"
     /\ last.req.method = MethodGet
     /\ nx.RedirectTrailingSlash
     /\ nx.RedirectFixedPath
     /\ OnlyRoute(CaseRoute)
     /\ FoldsTo(last.req.path, CaseRoute[2])) =>
        /\ StatusOf(last.w) = 301
        /\ last.w.Location = SetTo(Target(CaseRoute[2], last.req.query))
        /\ Invoked(last.w) = {}

(***************************************************************************)
(* The case-insensitive lookup as a state machine                          *)
(***************************************************************************)
\* the paths looked up without regard to case
FindPaths ==
    { <<"/">>,
      <<"/", "a">>,
      <<"/", "A">>,
      <<"/", "a", "/">>,
      <<"/", "A", "/">>,
      <<"/", "b">>,
      <<"/", "a", "b">>,
      <<"/", "A", "B">>,
      <<"/", "A", "b", "/">>,
      <<"/", "a", "/", "b">>,
      <<"/", "A", "/", "B">>,
      <<"/", "a", "/", "b", "/">>,
      <<"/", "A", "/", "b", "/", "c">> }

\* One call of tree.FindCaseInsensitivePath with an empty buffer; the tree is
\* only read.
TreeFind(path, fixTrailingSlash) ==
    /\ nGets < MaxGets
    /\ last' = [op |-> "Find", path |-> path, fixTrailingSlash |-> fixTrailingSlash,
                result |-> FindCaseInsensitivePath(t, path, fixTrailingSlash)]
    /\ nGets' = nGets + 1
    /\ UNCHANGED <<t, installed, nx, pool, groups, nAdds, nPanics, nHandles,
                   nRequests>>

NextFind ==
    \/ \E path \in CasePatterns : TreeAdd(path, nAdds + 1)
    \/ \E path \in FindPaths, fixTrailingSlash \in BOOLEAN :
           TreeFind(path, fixTrailingSlash)

SpecFind == Init /\ [][NextFind]_vars

(***************************************************************************)
(* Properties of the case-insensitive lookup                               *)
(***************************************************************************)
\* the registered static patterns equal to the path under case folding
FoldEqual(path) == {S \in Statics : EqualFold(path, S)}

\* the bytes of s in lower case
Lower(s) == [i \in 1..Len(s) |-> ToLower(s[i])]

\* a registered pattern matches the path, or the path with its trailing
\* slash toggled, when case is not regarded
FoldMatched(path) ==
    \E P \in Reg : \/ Matches(Lower(P), Lower(path))
                   \/ Matches(Lower(P), Lower(Toggle(path)))

\* C14: after successful Adds only, FindCaseInsensitivePath(path, true, buf)
\* for a path equal to a registered static pattern under ASCII case folding
\* returns true with that pattern, in its registered casing, in buf; for a
\* path equal to one only after its trailing slash is toggled it returns true
\* with that pattern in buf; when no registered pattern matches the path or
\* the toggled path, it returns false and buf is empty.
C14_CaseInsensitiveStatic ==
    (last.op = "Find" /\ last.fixTrailingSlash /\ nPanics = 0) =>
        /\ FoldEqual(last.path) # {} =>
               /\ last.result.found
               /\ last.result.buf \in FoldEqual(last.path)
        /\ (FoldEqual(last.path) = {} /\ FoldEqual(Toggle(last.path)) # {}) =>
               /\ last.result.found
               /\ last.result.buf \in FoldEqual(Toggle(last.path))
        /\ ~FoldMatched(last.path) =>
               /\ ~last.result.found
               /\ last.result.buf = <<>>

\* C15: case-insensitive recovery is idempotent: when
\* FindCaseInsensitivePath(p, true, buf) returns true with q in buf, the same
\* call for q returns true with q in buf.
C15_RecoveryIdempotent ==
    (last.op = "Find" /\ last.fixTrailingSlash /\ last.result.found) =>
        /\ FindCaseInsensitivePath(t, last.result.buf, TRUE).found
        /\ FindCaseInsensitivePath(t, last.result.buf, TRUE).buf = last.result.buf


(***************************************************************************)
(* Requests served one after the other through the pool of Contexts, with  *)
(* handlers that return errors or panic                                    *)
(***************************************************************************)
MaxPoolRequests == 2

\* GET /{x} and POST /a
PoolRoutes == {RouteList[3], RouteList[7]}

\* what PanicHandler and ErrorHandler are set to
PanicHandlers == {"unset", "nil", "error"}

ErrorHandlers == {"unset", "nil", "error", "httpError"}

\* the settings before the first registration: no hook or the three hooks,
\* and each PanicHandler with each ErrorHandler
PoolConfigs ==
    { [New EXCEPT !.GlobalOPTIONS = h, !.NotFound = h, !.MethodNotAllowed = h,
                  !.PanicHandler = ph, !.ErrorHandler = eh] :
        h \in BOOLEAN, ph \in PanicHandlers, eh \in ErrorHandlers }

\* a request routed by GET /{x}, one no route matches, one whose path has a
\* route of another method only, and an OPTIONS request
PoolRequests ==
    { [method |-> r[1], path |-> r[2], rawPath |-> <<>>, query |-> <<>>] :
        r \in { <<MethodGet, <<"/", "a">>>>,
                <<MethodGet, <<"/", "a", "/", "b">>>>,
                <<MethodPost, <<"/", "b">>>>,
                <<MethodOptions, <<"/", "b">>>> } }

InitPool ==
    /\ t = newTree
    /\ installed = <<>>
    /\ nx \in PoolConfigs
    /\ pool = {}
    /\ groups = newGroups
    /\ last = NoOp
    /\ nAdds = 0
    /\ nPanics = 0
    /\ nGets = 0
    /\ nHandles = 0
    /\ nRequests = 0

\* One request of a sequence served with the Context c that n.pool.Get()
\* returned, a pooled one or a new one; before is the pool when the request
\* arrives.
PoolServe(req, outcome, c) ==
    /\ nRequests < MaxPoolRequests
    /\ last' = [op |-> "ServeHTTP", req |-> req, outcome |-> outcome, c |-> c,
                before |-> pool, w |-> ServeHTTP(nx, c, req, outcome)]
    /\ pool' = Put(pool \ {c}, last'.w)
    /\ nRequests' = nRequests + 1
    /\ UNCHANGED <<t, installed, nx, groups, nAdds, nPanics, nGets, nHandles>>

NextPool ==
    \/ \E route \in PoolRoutes : RouterHandle(route[1], route[2], ChainOf(route))
    \/ \E req \in PoolRequests, outcome \in AllOutcomes,
          c \in pool \cup {newContext} : PoolServe(req, outcome, c)

SpecPool == InitPool /\ [][NextPool]_vars

\* a handler or a hook of the request was called and panicked
HandlerPanicked ==
    /\ last.op = "ServeHTTP"
    /\ last.outcome = "panic"
    /\ Invoked(last.w) # {}

\* the places of the log where PanicHandler was called
PanicHandled(w) ==
    {i \in DOMAIN w.log : w.log[i] = Event("hook", "PanicHandler", 0)}

\* C16: when a handler called by ServeHTTP panics, the panic does not leave
\* ServeHTTP, the Context is put back into the pool, PanicHandler is called
\* once when it is set and recv does not panic when it is not; without a
\* panic PanicHandler is not called.
C16_PanicRecovered ==
    /\ HandlerPanicked =>
          /\ ~last.w.escaped
          /\ last.w.put
          /\ ContextOf(last.w) \in pool
          /\ nx.PanicHandler # "unset" => Cardinality(PanicHandled(last.w)) = 1
          /\ nx.PanicHandler = "unset" => ~recvPanicked(last.w)
    /\ (last.op = "ServeHTTP" /\ last.outcome # "panic") =>
          PanicHandled(last.w) = {}


\* the hooks of the router that answer a request no route serves
RouterHooks == {"NotFound", "MethodNotAllowed", "GlobalOPTIONS"}

\* the functions called for the request before any chain of it was run
BeforeChain(w) ==
    {i \in DOMAIN w.seen : \A j \in 1..i : w.seen[j].name # ""}

\* C17: the Context a request is served with holds no params and no handler
\* chain once it is initialised, whatever the pool returned; a NotFound,
\* MethodNotAllowed or GlobalOPTIONS handler called for a request no route
\* serves finds no parameter and no handler chain in it.
C17_ContextCleared ==
    last.op = "ServeHTTP" =>
        /\ ContextOf(init(last.c)) = newContext
        /\ \A i \in BeforeChain(last.w) :
               last.w.seen[i].name \in RouterHooks =>
                   /\ last.w.seen[i].params = NoParams
                   /\ last.w.seen[i].handlers = NoHandlers


\* a chain of the request was run and returned an error
ChainFailed ==
    /\ last.op = "ServeHTTP"
    /\ last.outcome \in {"error", "httpError"}
    /\ \E i \in DOMAIN last.w.log : last.w.log[i].ev = "chain"

\* the places of the log where ErrorHandler was called
ErrorHandled(w) ==
    {i \in DOMAIN w.log : w.log[i] = Event("hook", "ErrorHandler", 0)}

\* the status of an error as the claim has it replied: the code of an
\* *HTTPError, 500 for any other error
ReplyOf(err) == IF err = "httpError" THEN StatusTeapot ELSE 500

\* the log of a request whose error was replied by the router with the code
RepliedWith(w, code) ==
    /\ RouterWrote(w, {code}) = {Len(w.log)}
    /\ RouterWrote(w, 100..599) = {Len(w.log)}
    /\ w.status = code

\* C18: when the chain of a request returns an error, ErrorHandler is called
\* once when it is set, and not otherwise; the router replies once, as the
\* last thing done for the request, to the error of the chain when
\* ErrorHandler is not set and to the error ErrorHandler returns when it
\* returns one, with the code of an *HTTPError and else with 500; it replies
\* nothing when ErrorHandler returns nil; nothing else is called afterwards.
C18_ErrorForwarding ==
    ChainFailed =>
        /\ Cardinality(Invoked(last.w) \ ErrorHandled(last.w)) = 1
        /\ IF nx.ErrorHandler = "unset"
           THEN /\ ErrorHandled(last.w) = {}
                /\ RepliedWith(last.w, ReplyOf(last.outcome))
           ELSE /\ Cardinality(ErrorHandled(last.w)) = 1
                /\ IF nx.ErrorHandler = "nil"
                   THEN /\ RouterWrote(last.w, 100..599) = {}
                        /\ ErrorHandled(last.w) = {Len(last.w.log)}
                   ELSE RepliedWith(last.w, ReplyOf(nx.ErrorHandler))


(***************************************************************************)
(* The handler chain of a Context.  A handler is what it does when called: *)
(* it returns nil, returns an error, returns what c.Next() returns, calls  *)
(* c.Next() and returns nil whatever Next returned, or calls c.Abort() and *)
(* returns nil; or it combines the two calls: c.Abort() and then what      *)
(* c.Next() returns, c.Next() and then c.Abort(), c.Next() twice.  c is    *)
(* the index of the Context and the events of the       *)
(* request: the handlers called and the errors returned, in order.         *)
(***************************************************************************)
MaxChain == 3

Behaviours == {"nil", "error", "next", "swallow", "abort",
               "abortNext", "nextAbort", "nextNext"}

\* the handlers that call c.Abort()
Aborting == {"abort", "abortNext", "nextAbort"}

\* c.handlers of the chains run
Chains == UNION {[1..n -> Behaviours] : n \in 0..MaxChain}

\* the Context after init: index -1
initIndex == [index |-> -1, events |-> <<>>]

\* what a call returns: the Context and whether the error is not nil
Returned(c, err) == [c |-> c, err |-> err]

\* c.Abort() left without effect
AbortNothing(handlers, c) == c

\* c.Abort()
Abort(handlers, c) == [c EXCEPT !.index = Len(handlers)]

\* c.Abort() called by a handler, the call recorded in the events
aborted(handlers, c) ==
    Abort(handlers, [c EXCEPT !.events = Append(@, <<"abort", c.index>>)])

RECURSIVE ContextNext(_, _)
RECURSIVE nextLoop(_, _)
RECURSIVE callHandler(_, _)
RECURSIVE returnedTo(_, _)

\* c.handlers[c.index](c)
callHandler(handlers, c) ==
    IF handlers[c.index + 1] = "nil" THEN Returned(c, FALSE)
    ELSE IF handlers[c.index + 1] = "error" THEN Returned(c, TRUE)
    ELSE IF handlers[c.index + 1] = "next" THEN ContextNext(handlers, c)
    ELSE IF handlers[c.index + 1] = "swallow"
    THEN Returned(ContextNext(handlers, c).c, FALSE)
    ELSE IF handlers[c.index + 1] = "abort"
    THEN Returned(aborted(handlers, c), FALSE)
    ELSE IF handlers[c.index + 1] = "abortNext"
    THEN ContextNext(handlers, aborted(handlers, c))
    ELSE IF handlers[c.index + 1] = "nextAbort"
    THEN Returned(aborted(handlers, ContextNext(handlers, c).c), FALSE)
    ELSE ContextNext(handlers, ContextNext(handlers, c).c)

\* the loop of Next once the handler it called has returned r: the error is
\* returned, or the loop goes on after c.index++
returnedTo(handlers, r) ==
    IF r.err
    THEN Returned([r.c EXCEPT !.events = Append(@, <<"err", r.c.index>>)], TRUE)
    ELSE nextLoop(handlers, [r.c EXCEPT !.index = @ + 1])

\* the loop of Next at its test
nextLoop(handlers, c) ==
    IF c.index < Len(handlers)
    THEN returnedTo(handlers,
                    callHandler(handlers,
                                [c EXCEPT !.events = Append(@, <<"call", c.index>>)]))
    ELSE Returned(c, FALSE)

\* Context.Next
ContextNext(handlers, c) == nextLoop(handlers, [c EXCEPT !.index = @ + 1])

InitChain ==
    /\ t = newTree
    /\ installed = <<>>
    /\ nx = New
    /\ pool = {}
    /\ groups = newGroups
    /\ last \in {[op |-> "handlers", handlers |-> h] : h \in Chains}
    /\ nAdds = 0
    /\ nPanics = 0
    /\ nGets = 0
    /\ nHandles = 0
    /\ nRequests = 0

\* c.Next() of a Context just initialised whose handlers are the chain
ChainNext ==
    /\ last.op = "handlers"
    /\ last' = [op |-> "Next", handlers |-> last.handlers,
                result |-> ContextNext(last.handlers, initIndex)]
    /\ UNCHANGED <<t, installed, nx, pool, groups, nAdds, nPanics, nGets,
                   nHandles, nRequests>>

NextChain == ChainNext

SpecChain == InitChain /\ [][NextChain]_vars


\* the events of the last run of a chain
EventsOf == last.result.c.events

\* the handlers called, in the order of the calls
CallsOf == SelectSeq(EventsOf, LAMBDA e : e[1] = "call")

\* the handlers are called in registration order, none skipped or repeated
InOrder == \A i \in DOMAIN CallsOf : CallsOf[i][2] = i - 1

\* no handler is called once a handler has returned an error
HaltsOnError ==
    \A i \in DOMAIN EventsOf : \A j \in DOMAIN EventsOf :
        (i < j /\ EventsOf[i][1] = "err") => EventsOf[j][1] # "call"

\* every handler is called when none called returned an error or aborted
RunsAll ==
    (\A i \in DOMAIN CallsOf :
         last.handlers[CallsOf[i][2] + 1] \notin {"error"} \cup Aborting)
        => Len(CallsOf) = Len(last.handlers)

\* C19: Next calls the handlers of the chain in registration order, all of
\* them when none returns an error or aborts, and once a handler has returned
\* an error no handler is called any more, also when handlers call Next.
C19_NextHalts ==
    last.op = "Next" => InOrder /\ RunsAll /\ HaltsOnError


(***************************************************************************)
(* The route groups of a router as a state machine                         *)
(***************************************************************************)
MaxGroups == 3

MaxGroupAdds == 1

\* the handler a call passes: one not passed before
FreshHandler == groups.calls + nHandles + 1

\* the handlers passed to Use
UseArgs == {<<FreshHandler>>}

\* the handlers passed to Group: none, or one
GroupArgs == {<<>>, <<FreshHandler>>}

GroupPrefixes == { <<"/", "a">> }

\* the paths of the routes added through a group
GroupPaths == { <<"/", "c">>, <<"/", "{", "x", "}">> }

\* the handlers of the routes added through a group: none, or one
AddArgs == {<<>>, <<FreshHandler>>}

InitGroup ==
    /\ t = newTree
    /\ installed = <<>>
    /\ nx = New
    /\ pool = {}
    /\ groups = newGroups
    /\ last = NoOp
    /\ nAdds = 0
    /\ nPanics = 0
    /\ nGets = 0
    /\ nHandles = 0
    /\ nRequests = 0

\* One call of Use on group g.
GroupUse(g, hs) ==
    /\ groups.calls < MaxGroupCalls
    /\ groups' = [Use(groups, g, hs) EXCEPT !.want[g] = @ \o hs,
                                            !.calls = @ + 1]
    /\ last' = [op |-> "Use", g |-> g, handlers |-> hs]
    /\ UNCHANGED <<t, installed, nx, pool, nAdds, nPanics, nGets, nHandles,
                   nRequests>>

\* One call of Group on group g; child is the group made.
GroupGroup(g, prefix, hs) ==
    /\ groups.calls < MaxGroupCalls
    /\ Len(groups.list) < MaxGroups
    /\ groups' = [Group(groups, g, prefix, hs) EXCEPT
                     !.want = Append(@, IF hs = <<>> THEN groups.want[g] ELSE hs),
                     !.parent = Append(@, g),
                     !.inherited = Append(@, hs = <<>>),
                     !.calls = @ + 1]
    /\ last' = [op |-> "Group", g |-> g, prefix |-> prefix, handlers |-> hs,
                child |-> Len(groups.list) + 1]
    /\ UNCHANGED <<t, installed, nx, pool, nAdds, nPanics, nGets, nHandles,
                   nRequests>>

\* One route added through group g (Get, Post, ...); a panic of Handle is
\* recovered by the caller; before is the router when add is called.
GroupAdd(g, method, path, hs) ==
    /\ nHandles < MaxGroupAdds
    /\ LET r == routeGroupAdd(groups, nx, g, method, path, hs)
       IN  /\ nx' = r.nx
           /\ last' = [op |-> "add", g |-> g, method |-> method, path |-> path,
                       handlers |-> hs, panicked |-> r.panicked, before |-> nx]
           /\ nPanics' = IF r.panicked THEN nPanics + 1 ELSE nPanics
    /\ nHandles' = nHandles + 1
    /\ UNCHANGED <<t, installed, pool, groups, nAdds, nGets, nRequests>>

NextGroup ==
    \/ \E g \in DOMAIN groups.list, hs \in UseArgs : GroupUse(g, hs)
    \/ \E g \in DOMAIN groups.list, prefix \in GroupPrefixes, hs \in GroupArgs :
          GroupGroup(g, prefix, hs)
    \/ \E g \in DOMAIN groups.list, path \in GroupPaths, hs \in AddArgs :
          GroupAdd(g, MethodGet, path, hs)

SpecGroup == InitGroup /\ [][NextGroup]_vars

\* the handlers of group g
HandlersOf(g) == ElementsOf(groups.arrays, groups.list[g].handlers)

\* the pattern a route is handed to Handle with, and its chain, as the claim
\* has them: the prefix of the group and the path, the handlers of the group
\* and those of the route
FullPath == groups.list[last.g].prefix \o last.path

FullChain == ChainId(groups.want[last.g] \o last.handlers)

\* a path of the pattern, each parameter being "v"
PathOf(pattern) == Subst(pattern, [k \in Keys(pattern) |-> <<"v">>])

\* C20: the group Group makes has the prefix of its group followed by the
\* prefix given, and the handlers given or, when none is given, those of its
\* group in an array of its own; the handlers of every group are at all
\* times those it was made with followed by those of its own Use calls,
\* whatever is done to other groups; a route added through a group is
\* handed to Handle with the prefix of the group followed by its path and
\* the chain of the handlers of the group followed by its own, and a lookup
\* of a path of that pattern returns this chain.
C20_GroupComposition ==
    /\ \A g \in DOMAIN groups.list : HandlersOf(g) = groups.want[g]
    /\ last.op = "Group" =>
          /\ groups.list[last.child].prefix
                 = groups.list[last.g].prefix \o last.prefix
          /\ IF last.handlers = <<>>
             THEN /\ HandlersOf(last.child) = HandlersOf(last.g)
                  /\ groups.list[last.child].handlers.arr
                         # groups.list[last.g].handlers.arr
             ELSE HandlersOf(last.child) = last.handlers
    /\ last.op = "add" =>
          /\ nx = Handle(last.before, last.method, FullPath, FullChain).nx
          /\ last.panicked
                 = Handle(last.before, last.method, FullPath, FullChain).panicked
          /\ FullChain = NoHandlers => last.panicked
          /\ ~last.panicked =>
                /\ nx.registeredPaths[last.method]
                       = Append(last.before.registeredPaths[last.method], FullPath)
                /\ Get(TreeOf(nx, last.method), PathOf(FullPath)).handlers
                       = FullChain

\* a route is added with a handler of its own through a group made without
\* handlers, whose handlers differ from those of the group it was made from
\* since a Use after it was made
C20_Witness ==
    /\ last.op = "add"
    /\ ~last.panicked
    /\ groups.inherited[last.g]
    /\ groups.want[last.g] # <<>>
    /\ groups.want[last.g] # groups.want[groups.parent[last.g]]
    /\ last.handlers # <<>>
    /\ Get(TreeOf(nx, last.method), PathOf(FullPath)).handlers = FullChain
    /\ FullChain = ChainId(HandlersOf(last.g) \o last.handlers)


(***************************************************************************)
(* Routes of a custom method                                               *)
(***************************************************************************)
\* routes of the custom method and one of GET, each with its chain
CustomRouteList ==
    << <<MethodCustom, <<"/", "a">>>>,
       <<MethodCustom, <<"/", "b">>>>,
       <<MethodGet, <<"/", "a">>>> >>

CustomRoutes == {CustomRouteList[i] : i \in 1..Len(CustomRouteList)}

CustomChainOf(route) ==
    CHOOSE i \in 1..Len(CustomRouteList) : CustomRouteList[i] = route

CustomRequests ==
    { [method |-> m, path |-> p, rawPath |-> <<>>, query |-> <<>>] :
        m \in {MethodCustom, MethodGet}, p \in { <<"/", "a">>, <<"/", "b">> } }

NextCustom ==
    \/ \E route \in CustomRoutes :
          RouterHandle(route[1], route[2], CustomChainOf(route))
    \/ \E req \in CustomRequests, outcome \in Outcomes,
          c \in pool \cup {newContext} : RouterServe(req, outcome, c)

SpecCustom == InitServe /\ [][NextCustom]_vars

\* the custom methods with a registered route
CustomRegistered ==
    {m \in {MethodCustom} : nx.registeredPaths[m] # <<>>}

\* C21: a request of the custom method for a path registered under it runs
\* the chain of that route; the router has one tree more than the ten slots
\* of New for each custom method with a route, however many Handle calls
\* were made for it.
C21_CustomMethodTree ==
    /\ Len(nx.trees) = 10 + Cardinality(CustomRegistered)
    /\ (/\ last.op = "ServeHTTP"
        /\ nPanics = 0
        /\ last.req.method = MethodCustom
        /\ \E i \in DOMAIN nx.registeredPaths[MethodCustom] :
              nx.registeredPaths[MethodCustom][i] = last.req.path) =>
           /\ Len(last.w.log) > 0
           /\ last.w.log[1]
                  = Event("chain", "",
                          CustomChainOf(<<MethodCustom, last.req.path>>))


(***************************************************************************)
(* Routes and their URLs                                                   *)
(***************************************************************************)
\* strings.TrimRight(s, cutset)
RECURSIVE TrimRight(_, _)
TrimRight(s, cutset) ==
    IF Len(s) > 0 /\ s[Len(s)] \in cutset
    THEN TrimRight(SubSeq(s, 1, Len(s) - 1), cutset)
    ELSE s

\* the name of a parameter without its regex and its trailing * or ?
templateName(name) ==
    TrimRight(IF IndexFrom(name, ":", 0) >= 0
              THEN Slice(name, 0, IndexFrom(name, ":", 0))
              ELSE name,
              {"*", "?"})

\* the loop of buildURLTemplate at byte i
RECURSIVE templateLoop(_, _, _, _, _)
templateLoop(path, i, start, end, template) ==
    IF i >= Len(path)
    THEN IF end < 0 THEN path
         ELSE IF end < Len(path) - 1 THEN template \o From(path, end + 1)
         ELSE template
    ELSE IF At(path, i) = "{"
    THEN templateLoop(path, i + 1, IF start < 0 THEN i ELSE start, end, template)
    ELSE IF At(path, i) = "}" /\ start >= 0
    THEN templateLoop(path, i + 1, -1, i,
                      template \o Slice(path, end + 1, start) \o <<"{">>
                          \o templateName(Slice(path, start + 1, i)) \o <<"}">>)
    ELSE templateLoop(path, i + 1, start, end, template)

buildURLTemplate(path) ==
    templateLoop(TrimRight(path, {"*"}), 0, -1, -1, <<>>)

\* RouteGroup.newRoute of group g
newRoute(g, method, path) ==
    [group |-> g, method |-> method, path |-> path,
     template |-> buildURLTemplate(path)]

\* url.QueryEscape on the bytes of the model: letters and digits are kept,
\* "/" becomes %2F
RECURSIVE QueryEscape(_)
QueryEscape(s) ==
    IF s = <<>> THEN <<>>
    ELSE (IF s[1] = "/" THEN <<"%", "2", "F">> ELSE <<s[1]>>)
         \o QueryEscape(Tail(s))

\* strings.ReplaceAll(s, old, new) for a non-empty old
RECURSIVE ReplaceAll(_, _, _)
ReplaceAll(s, old, new) ==
    IF Len(s) < Len(old) THEN s
    ELSE IF HasPrefix(s, old) THEN new \o ReplaceAll(From(s, Len(old)), old, new)
    ELSE <<s[1]>> \o ReplaceAll(Tail(s), old, new)

\* the loop of Route.URL: for i := range pairs
RECURSIVE urlLoop(_, _, _)
urlLoop(s, pairs, i) ==
    IF i >= Len(pairs) THEN s
    ELSE urlLoop(ReplaceAll(s, <<"{">> \o pairs[i + 1] \o <<"}">>,
                            IF i < Len(pairs) - 1
                            THEN QueryEscape(pairs[i + 2]) ELSE <<>>),
                 pairs, i + 1)

\* Route.URL
URL(r, pairs) == urlLoop(r.template, pairs, 0)

\* the prefixes of the groups routes are added through: that of the router's
\* own group and one of a group made from it
URLPrefixes == { <<>>, <<"/", "a">> }

URLPatterns ==
    { <<"/", "{", "x", "}">>,
      <<"/", "c", "/", "{", "x", "}">>,
      <<"/", "{", "x", "}", "/", "{", "y", "}">>,
      <<"/", "c", "/", "{", "n", ":", "u", "i", "n", "t", "}">>,
      <<"/", "c", "/", "{", "z", ":", "*", "}">> }

\* the values given to the parameters: names of parameters among them
URLValues == { <<"v">>, <<"x">>, <<"y">>, <<"7">> }

\* the values a pattern takes: a typed parameter takes digits
URLAssignments(pattern) ==
    {asg \in [Keys(pattern) -> URLValues] :
        \A k \in Keys(pattern) : KindOf(pattern, k) = "regex" => FullMatch(asg[k])}

\* name1, value1, name2, value2, ... in the order of the pattern
RECURSIVE PairsOf(_, _)
PairsOf(pattern, asg) ==
    IF ~findWildPath(pattern).found THEN <<>>
    ELSE <<findWildPath(pattern).keys[1], asg[findWildPath(pattern).keys[1]]>>
         \o PairsOf(From(pattern, findWildPath(pattern).end), asg)

InitURL ==
    /\ t = newTree
    /\ installed = <<>>
    /\ nx = New
    /\ pool = {}
    /\ groups \in {newGroups} \cup
                  {Group(newGroups, 1, prefix, <<>>) : prefix \in URLPrefixes \ {<<>>}}
    /\ last \in {[op |-> "pairs", path |-> p, asg |-> asg] :
                    p \in URLPatterns, asg \in UNION {URLAssignments(q) : q \in URLPatterns}}
    /\ DOMAIN last.asg = Keys(last.path)
    /\ last.asg \in URLAssignments(last.path)
    /\ nAdds = 0
    /\ nPanics = 0
    /\ nGets = 0
    /\ nHandles = 0
    /\ nRequests = 0

\* The route is added with GET through the last group made, and URL is
\* called on it with the pairs; got is the lookup of the URL in the router.
RouteURL ==
    /\ last.op = "pairs"
    /\ nx' = routeGroupAdd(groups, nx, Len(groups.list), MethodGet, last.path, <<1>>).nx
    /\ last' = [op |-> "URL", path |-> last.path, asg |-> last.asg,
                url |-> URL(newRoute(Len(groups.list), MethodGet, last.path),
                            PairsOf(last.path, last.asg)),
                got |-> Get(TreeOf(nx', MethodGet),
                            URL(newRoute(Len(groups.list), MethodGet, last.path),
                                PairsOf(last.path, last.asg)))]
    /\ nHandles' = nHandles + 1
    /\ UNCHANGED <<t, installed, pool, groups, nAdds, nPanics, nGets, nRequests>>

NextURL == RouteURL

SpecURL == InitURL /\ [][NextURL]_vars

\* C22: URL called with every parameter of the pattern and its value returns
\* the prefix of the group followed by the pattern with each parameter
\* replaced by its own value, and the lookup of that path returns the chain
\* of the route with each parameter bound to its value.
C22_URLRoundTrip ==
    last.op = "URL" =>
        /\ last.url = groups.list[Len(groups.list)].prefix \o Subst(last.path, last.asg)
        /\ last.got = Found(ChainId(<<1>>), last.asg, FALSE)


(***************************************************************************)
(* Parameter segments that differ at the same position                     *)
(***************************************************************************)
NextParam == \E path \in ParamPatterns : TreeAdd(path, nAdds + 1)

SpecParam == Init /\ [][NextParam]_vars

\* patterns p and q have, after the same bytes, parameter segments (no
\* catch-all) whose texts differ
RECURSIVE ParamClash(_, _)
ParamClash(p, q) ==
    /\ findWildPath(p).found
    /\ findWildPath(q).found
    /\ findWildPath(p).pType = param
    /\ findWildPath(q).pType = param
    /\ findWildPath(p).start = findWildPath(q).start
    /\ Slice(p, 0, findWildPath(p).start) = Slice(q, 0, findWildPath(q).start)
    /\ IF findWildPath(p).path # findWildPath(q).path THEN TRUE
       ELSE ParamClash(From(p, findWildPath(p).end), From(q, findWildPath(q).end))

\* the number of children of kind param of the node and of every node below
\* it that has the most
RECURSIVE MaxParamChildren(_)
MaxParamChildren(n) ==
    LET own == Cardinality({k \in DOMAIN n.children : n.children[k].nType = param})
        below == {MaxParamChildren(n.children[k]) : k \in DOMAIN n.children}
    IN  CHOOSE m \in below \cup {own} : \A o \in below \cup {own} : m >= o

\* C23: an Add of a pattern with a parameter segment that differs from the
\* parameter segment of a registered pattern at the same position panics
\* with a wild-path conflict, and no node of the tree has more than one
\* child of kind param.
C23_ParamConflict ==
    /\ (/\ last.op = "Add"
        /\ \E q \in (DOMAIN installed) \ {last.path} : ParamClash(last.path, q)) =>
           /\ last.panicked
           /\ last.err = errWildPathConflict
    /\ MaxParamChildren(t.root) <= 1


\* some node at or below n has tsr set and a handler chain
RECURSIVE TsrWithHandlers(_)
TsrWithHandlers(n) ==
    \/ n.tsr /\ n.handlers # NoHandlers
    \/ \E k \in DOMAIN n.children : TsrWithHandlers(n.children[k])

\* a path that returned handlers before the step returns tsr = true and no
\* handlers after it
TurnedIntoTsr(before, after) ==
    \E q \in Paths :
        /\ Get(before, q).handlers # NoHandlers
        /\ Get(after, q).tsr
        /\ Get(after, q).handlers = NoHandlers

\* C24: no node of a tree built by tree.Add calls has tsr set together with a
\* handler chain, and no Add turns a path that returned handlers into one that
\* returns tsr = true.
C24_TsrWithoutHandlers ==
    [][/\ ~TsrWithHandlers(t'.root)
       /\ ~TurnedIntoTsr(t, t')]_vars

\* C25: a Handle that panics leaves the trees, registeredPaths and
\* globalAllowed of the router as they were before the call.
C25_FailedRegistration ==
    [][(last'.op = "Handle" /\ last'.panicked) =>
          /\ nx'.trees = nx.trees
          /\ nx'.registeredPaths = nx.registeredPaths
          /\ nx'.globalAllowed = nx.globalAllowed]_vars

\* C26: tree.Get reports tsr = true for a path only when no registered pattern
\* of the tree matches the path: when a registered pattern matches, Get
\* returns handlers and no trailing-slash recommendation.
C26_TsrOnlyWithoutMatch ==
    (last.op = "Get" /\ nPanics = 0
        /\ \E P \in Reg : Matches(P, last.path)) =>
        /\ ~last.result.tsr
        /\ last.result.handlers # NoHandlers

\* the request was rejected as method not allowed: the router wrote 405 or
\* called the MethodNotAllowed handler
Rejected405 ==
    /\ last.op = "ServeHTTP"
    /\ last.w.status = 405 \/ Hooked(last.w, "MethodNotAllowed")

\* C27: the Allow header of a 405 reply never names the method of the
\* request that is rejected, whatever the method and the flags.
C27_AllowExcludesRequestMethod ==
    (Rejected405 /\ last.w.Allow.set) =>
        \A i \in DOMAIN last.w.Allow.value :
            last.w.Allow.value[i] # last.req.method

\* the handlers are called in strictly increasing index order, hence each at
\* most once
Increasing ==
    \A i \in DOMAIN CallsOf : \A j \in DOMAIN CallsOf :
        i < j => CallsOf[i][2] < CallsOf[j][2]

\* no handler is called once a handler has called Abort
HaltsOnAbort ==
    \A i \in DOMAIN EventsOf : \A j \in DOMAIN EventsOf :
        (i < j /\ EventsOf[i][1] = "abort") => EventsOf[j][1] # "call"

\* C28: whatever Next and Abort calls the handlers of a chain make, each
\* handler is called at most once and in strictly increasing index order, and
\* once Abort has been called no handler is called any more.
C28_NextAbortOrder ==
    last.op = "Next" => Increasing /\ HaltsOnAbort

\* a chain of three whose first handler calls Next and whose second calls
\* Abort and then Next: the third is never called
C28_Witness ==
    /\ last.op = "Next"
    /\ last.handlers = <<"next", "abortNext", "nil">>
    /\ CallsOf = << <<"call", 0>>, <<"call", 1>> >>
    /\ \E i \in DOMAIN EventsOf : EventsOf[i] = <<"abort", 1>>

\* the methods Handle was called for with arguments it accepts
RegisteredMethods == {m \in MethodNames : nx.registeredPaths[m] # <<>>}

\* the Allow value for "*" and "/*": the registered methods besides OPTIONS
\* and OPTIONS, ascending; nothing when no such method is registered
GlobalList ==
    IF RegisteredMethods \ {MethodOptions} = {} THEN <<>>
    ELSE AllowOf(RegisteredMethods \cup {MethodOptions})

\* C29 as stated: once a method is registered, allowed(path, m) for the path
\* "*" or "/*" is the list of the registered methods besides OPTIONS with
\* OPTIONS appended, in ascending order, and the cached globalAllowed is that
\* list.
C29_GlobalAllowedAsStated ==
    RegisteredMethods # {} =>
        /\ nx.globalAllowed = AllowOf(RegisteredMethods \cup {MethodOptions})
        /\ \A path \in {<<"*">>, <<"/", "*">>} :
               \A m \in MethodNames \cup {""} :
                   allowed(nx, path, m) =
                       AllowOf(RegisteredMethods \cup {MethodOptions})

\* C29 amended: after any sequence of Handle calls, allowed(path, m) for the
\* path "*" or "/*" is, for every m, empty or not, the list of the registered
\* methods besides OPTIONS with OPTIONS appended, in ascending order, when
\* there is such a method, and empty otherwise; the cached globalAllowed is
\* that list.
C29_GlobalAllowed ==
    /\ nx.globalAllowed = GlobalList
    /\ \A path \in {<<"*">>, <<"/", "*">>} :
           \A m \in MethodNames \cup {""} :
               allowed(nx, path, m) = GlobalList

\* GET and POST routes are registered: the cached value and the computed one
\* are GET, OPTIONS, POST
C29_Witness ==
    /\ last.op = "Handle"
    /\ ~last.panicked
    /\ RegisteredMethods = {MethodGet, MethodPost}
    /\ nx.globalAllowed = <<"GET", "OPTIONS", "POST">>
    /\ allowed(nx, <<"*">>, "") = nx.globalAllowed

(***************************************************************************)
(* cleanPath on the paths a request may carry                              *)
(***************************************************************************)
MaxPathLen == 4

\* the bytes of the paths cleaned: a separator, a dot and a letter
PathBytes == {"/", ".", "a"}

\* r.URL.RawPath of the requests whose path is cleaned
RawPaths == UNION {[1..n -> PathBytes] : n \in 0..MaxPathLen}

InitClean ==
    /\ t = newTree
    /\ installed = <<>>
    /\ nx = New
    /\ pool = {}
    /\ groups = newGroups
    /\ last \in {[op |-> "path", path |-> p] : p \in RawPaths}
    /\ nAdds = 0
    /\ nPanics = 0
    /\ nGets = 0
    /\ nHandles = 0
    /\ nRequests = 0

\* cleanPath of the path, and cleanPath of what it returned
CleanStep ==
    /\ last.op = "path"
    /\ last' = [op |-> "cleanPath", path |-> last.path,
                result |-> cleanPath(last.path),
                again |-> cleanPath(cleanPath(last.path))]
    /\ UNCHANGED <<t, installed, nx, pool, groups, nAdds, nPanics, nGets,
                   nHandles, nRequests>>

NextClean == CleanStep

SpecClean == InitClean /\ [][NextClean]_vars

\* the path has two separators in a row
HasSlashRun(s) == \E i \in 1..(Len(s) - 1) : s[i] = "/" /\ s[i + 1] = "/"

\* the bytes i..j of the path are a whole segment
IsSegment(s, i, j) ==
    /\ i = 1 \/ s[i - 1] = "/"
    /\ j = Len(s) \/ s[j + 1] = "/"

\* the path has a segment "." or ".."
HasDotSegment(s) ==
    \/ \E i \in DOMAIN s : s[i] = "." /\ IsSegment(s, i, i)
    \/ \E i \in 1..(Len(s) - 1) :
           s[i] = "." /\ s[i + 1] = "." /\ IsSegment(s, i, i + 1)

\* C30: for every path, cleanPath returns a path that begins with "/", has no
\* run of "/" and no segment "." or "..", and cleanPath of that path returns
\* it unchanged.
C30_CleanPath ==
    last.op = "cleanPath" =>
        /\ HasPrefix(last.result, <<"/">>)
        /\ ~HasSlashRun(last.result)
        /\ ~HasDotSegment(last.result)
        /\ last.again = last.result

====
